---- MODULE Spec2Model ----
(***************************************************************************)
(* Model of MEM::Integrand (src/src/Integrand.cpp): the permutation        *)
(* engine, the variable map, run() with next_hypo(), and the evaluation of *)
(* the integrand.                                                          *)
(*                                                                         *)
(* Conventions.  A C++ vector is a TLA+ sequence; the C++ index k is the   *)
(* TLA+ index k+1 (see At).  A double is modelled by an integer; a NaN is  *)
(* a flag beside it.  BTAG scores are stored times ten.                    *)
(***************************************************************************)
EXTENDS Integers, Sequences, FiniteSets, TLC

(***************************************************************************)
(* Bounds of the model.                                                    *)
(***************************************************************************)
\* The largest number of observed jets.
MaxJets == 6
\* The largest number of lost objects named in a lost list.
MaxLost == 2
\* The largest number of integrand evaluations explored in one run().
MaxCalls == 1
\* The largest number of arrangements init() enumerates in an explored run.
MaxPerms == 360
\* The largest number of jets with observables set by the caller.
MaxSpecial == 2
\* The external functions answer for permutation k as for k modulo this.
EnvPeriod == 2
MaxObjects == 2
MaxOverride == 1
MaxDM2 == 50
MaxTarget == 7

(***************************************************************************)
(* Enumerations.                                                           *)
(***************************************************************************)
FinalStates == {"LH", "LL", "HH", "TTH"}
Hypotheses == {"TTH", "TTBB"}
Strategies == {"BTagged", "QUntagged", "QQbarSymmetry", "BBbarSymmetry"}

\* PSPart: the particle roles, in the order of the phase-space point.
Roles == <<"q1", "qbar1", "b1", "q2", "qbar2", "b2", "b", "bbar">>

\* Position of a role in the PSVar layout (0=q1, 1=qbar1, 2=b1, ...).
RolePos(r) == CHOOSE k \in 0..7 : Roles[k + 1] = r

\* PSVar: three variables per role, E first, then cos, then phi.
E_(r) == 3 * RolePos(r)
cos_(r) == 3 * RolePos(r) + 1
phi_(r) == 3 * RolePos(r) + 2
P_t == 24
cos_t == 25
phi_t == 26
P_tbar == 27
cos_tbar == 28
phi_tbar == 29
Pz_h == 30

\* The sentinel of a quark slot with no jet.
Lost == -1

\* The C++ element v[k] of a vector.
At(v, k) == v[k + 1]

\* The C++ truth value as a number.
B2I(c) == IF c THEN 1 ELSE 0

(***************************************************************************)
(* init(): the indexes to be permuted and their enumeration.               *)
(***************************************************************************)
\* CompPerm(cfg.highpt_first): the strict order used by sort and
\* next_permutation.  The class is declared outside this file; the
\* arrangements enumerated are the same for every strict order, only their
\* sequence differs, and both sequences are explored.
CompPerm(hp, a, b) == IF hp THEN a < b ELSE a > b

\* naive_jet_counting: the number of quark slots of a final state.
NaiveJetCounting(f) ==
  8 * B2I(f = "HH") + 6 * B2I(f = "LH") + 4 * B2I(f = "LL") + 0 * B2I(f = "TTH")

\* An assertion that takes one lepton for the final state LL.
LeptonsOfOne(f) ==
  0 * B2I(f = "HH" \/ f = "TTH") + 1 * B2I(f = "LH") + 1 * B2I(f = "LL")

\* The number of leptons init() asserts for a final state.
LeptonsOf(f) ==
  0 * B2I(f = "HH" \/ f = "TTH") + 1 * B2I(f = "LH") + 2 * B2I(f = "LL")

\* perm_index before sorting: the jet indices, padded with -1.
RECURSIVE PadIndex(_, _)
PadIndex(s, n) == IF Len(s) < n THEN PadIndex(Append(s, Lost), n) ELSE s

PermIndex(njets, f) ==
  PadIndex(<<>> \o [k \in 1..njets |-> k - 1], NaiveJetCounting(f))

\* std::sort under the comparator (insertion of each element in order).
RECURSIVE InsertSorted(_, _, _)
InsertSorted(hp, s, x) ==
  IF s = <<>> THEN <<x>>
  ELSE IF CompPerm(hp, x, Head(s)) THEN <<x>> \o s
  ELSE <<Head(s)>> \o InsertSorted(hp, Tail(s), x)

\* A sort that leaves the vector as it was filled.
SortPermNone(hp, s) == s

RECURSIVE SortPerm(_, _)
SortPerm(hp, s) ==
  IF s = <<>> THEN <<>> ELSE InsertSorted(hp, SortPerm(hp, Tail(s)), Head(s))

\* std::reverse of a whole vector.
Reverse(s) == <<>> \o [k \in 1..Len(s) |-> s[Len(s) + 1 - k]]

\* std::next_permutation under the comparator: the next arrangement and
\* whether there was one.
NextPermutation(hp, s) ==
  LET n == Len(s)
      asc == {i \in 1..(n - 1) : CompPerm(hp, s[i], s[i + 1])}
  IN IF asc = {} THEN [ok |-> FALSE, seq |-> Reverse(s)]
     ELSE LET i == CHOOSE x \in asc : \A y \in asc : y <= x
              j == CHOOSE x \in (i + 1)..n :
                     /\ CompPerm(hp, s[i], s[x])
                     /\ \A y \in (x + 1)..n : ~CompPerm(hp, s[i], s[y])
              sw == [s EXCEPT ![i] = s[j], ![j] = s[i]]
          IN [ok |-> TRUE,
              seq |-> <<>> \o [k \in 1..n |->
                                 IF k <= i THEN sw[k] ELSE sw[n + i + 1 - k]]]

\* An upper limit of the number of arrangements of n indexes.
RECURSIVE Factorial(_)
Factorial(n) == IF n <= 1 THEN 1 ELSE n * Factorial(n - 1)

\* The do/while loop of init(), run for at most n further iterations after
\* the arrangement s: the arrangements pushed, in order, and whether
\* next_permutation has not yet returned false.  (The loop is split in
\* halves only to keep the evaluation shallow.)
RECURSIVE PermLoop(_, _, _)
PermLoop(hp, s, n) ==
  IF n = 0 THEN [seqs |-> <<>>, more |-> TRUE]
  ELSE IF n = 1
  THEN LET r == NextPermutation(hp, s)
       IN IF r.ok THEN [seqs |-> <<r.seq>>, more |-> TRUE]
          ELSE [seqs |-> <<>>, more |-> FALSE]
  ELSE LET a == PermLoop(hp, s, n \div 2)
       IN IF ~a.more THEN a
          ELSE LET last == IF a.seqs = <<>> THEN s ELSE a.seqs[Len(a.seqs)]
                   b == PermLoop(hp, last, n - (n \div 2))
               IN [seqs |-> a.seqs \o b.seqs, more |-> b.more]

EnumeratePerms(hp, njets, f) ==
  LET s == SortPerm(hp, PermIndex(njets, f))
  IN <<s>> \o PermLoop(hp, s, Factorial(Len(s))).seqs

(***************************************************************************)
(* Observed objects.  A jet is its map of observables (Object::obs); an    *)
(* observable that is not set is not in the domain.                        *)
(***************************************************************************)
NoObs == [o \in {} |-> 0]

isSet(j, o) == o \in DOMAIN j

getObs(j, o) == j[o]

\* Object::addObs: an observable is set at most once.
addObs(j, o, v) ==
  IF o \in DOMAIN j THEN j
  ELSE [k \in DOMAIN j \cup {o} |-> IF k = o THEN v ELSE j[k]]

\* get_support(y, type, CL): the energy window of the resolution model.
SupportLowQ == 1
SupportHighQ == 3
SupportLowB == 2
SupportHighB == 5

\* The BTAG threshold 0.5 of accept_perm, times ten.
BTagCut == 5

\* init(), lines 82-95: the energy windows added to a jet.
WithEdges(j) ==
  LET jq == IF ~isSet(j, "E_LOW_Q") \/ ~isSet(j, "E_HIGH_Q")
            THEN addObs(addObs(j, "E_LOW_Q", SupportLowQ), "E_HIGH_Q", SupportHighQ)
            ELSE j
  IN IF ~isSet(jq, "E_LOW_B") \/ ~isSet(jq, "E_HIGH_B")
     THEN addObs(addObs(jq, "E_LOW_B", SupportLowB), "E_HIGH_B", SupportHighB)
     ELSE jq

(***************************************************************************)
(* init(): the number of unknowns.                                         *)
(***************************************************************************)
Unstable(f) == B2I(f = "LH" \/ f = "LL" \/ f = "HH")

PsDim(f, h) ==
  8 * Unstable(f)
  + (3 * B2I(h = "TTH") + 4 * B2I(h = "TTBB")) * B2I(Unstable(f) = 0)

NumOfVars(f, h, nlep, nmet) ==
  3 * PsDim(f, h) - 3 * nlep - 2 * NaiveJetCounting(f) - 4 * Unstable(f)
  - 1 * B2I(h = "TTH" /\ Unstable(f) = 1) - 2 * B2I(nmet = 0)

(***************************************************************************)
(* fill_map(): map_to_part and map_to_var.                                 *)
(***************************************************************************)
\* A std::map as a function; m[k] = v inserts or overwrites.
MapSet(m, k, v) == [x \in DOMAIN m \cup {k} |-> IF x = k THEN v ELSE m[x]]

EmptyMap == [k \in {} |-> 0]

\* map_to_part written by fill_map for a final state.
FillMapPart(m, f) ==
  IF f = "LH"
  THEN MapSet(MapSet(MapSet(MapSet(MapSet(MapSet(MapSet(m,
         "q2", 0), "q1", 0), "qbar1", 1), "b1", 2), "b2", 3), "b", 4), "bbar", 5)
  ELSE IF f = "LL"
  THEN MapSet(MapSet(MapSet(MapSet(MapSet(MapSet(m,
         "q1", 0), "q2", 1), "b1", 0), "b2", 1), "b", 2), "bbar", 3)
  ELSE IF f = "HH"
  THEN MapSet(MapSet(MapSet(MapSet(MapSet(MapSet(MapSet(MapSet(m,
         "q1", 0), "qbar1", 1), "b1", 2), "q2", 3), "qbar2", 4), "b2", 5),
         "b", 6), "bbar", 7)
  ELSE m

\* The loop over the lost list: map_to_var[*l] = count_extra++.
RECURSIVE FillLost(_, _, _)
FillLost(m, lost, count_extra) ==
  IF lost = <<>> THEN m
  ELSE FillLost(MapSet(m, Head(lost), count_extra), Tail(lost), count_extra + 1)

\* The mandatory variables of a final state, in index order.
Mandatory(f, h) ==
  LET bbar == IF h = "TTBB" THEN <<E_("bbar")>> ELSE <<>>
  IN IF f = "LH"
     THEN <<E_("q1"), cos_("qbar2"), phi_("qbar2"), E_("b")>> \o bbar
     ELSE IF f = "LL"
     THEN <<cos_("qbar1"), phi_("qbar1"), cos_("qbar2"), phi_("qbar2"), E_("b")>>
          \o bbar
     ELSE IF f = "HH"
     THEN <<E_("q1"), E_("q2"), E_("b")>> \o bbar
     ELSE <<P_t, cos_t, phi_t, P_tbar, cos_tbar, phi_tbar, Pz_h>>

\* map_to_var written by fill_map; the lost list is mapped for LH, LL and
\* HH only.
FillMapVar(m, f, h, lost) ==
  LET base == FillLost(m, Mandatory(f, h), 0)
  IN IF f = "TTH" THEN base ELSE FillLost(base, lost, Len(Mandatory(f, h)))

(***************************************************************************)
(* Undefined behaviour.  A read through a wild index or through end()      *)
(* yields one of the values of Garbage; a write past the end of a vector   *)
(* leaves the vector as it was.  Each operator reports in its ub field     *)
(* that it went there; the actions then also let the process die.          *)
(***************************************************************************)
Garbage == {[width |-> -1, accept |-> FALSE], [width |-> 7, accept |-> TRUE]}

NoGarbage == [width |-> 0, accept |-> TRUE]

(***************************************************************************)
(* accept_perm().                                                          *)
(***************************************************************************)
\* True if the jet at slot ind of perm is a real jet with BTAG set and
\* below (low) or above (~low) the threshold.
TagVeto(perm, ind, jets, low) ==
  /\ At(perm, ind) >= 0
  /\ isSet(At(jets, At(perm, ind)), "BTAG")
  /\ IF low THEN getObs(At(jets, At(perm, ind)), "BTAG") < BTagCut
     ELSE getObs(At(jets, At(perm, ind)), "BTAG") > BTagCut

\* A BTagged case that looks at the b slots and vetoes nothing.
BTaggedPassAll(perm, mtp, jets) ==
  \A r \in {"b1", "b2", "b", "bbar"} : At(perm, mtp[r]) >= -1 /\ Len(jets) >= 0

\* case Permutations::BTagged: a veto returns false.
BTaggedPass(perm, mtp, jets) ==
  \A r \in {"b1", "b2", "b", "bbar"} : ~TagVeto(perm, mtp[r], jets, TRUE)

\* case Permutations::QUntagged: the light-quark slots per final state.
QUntaggedRoles(f) ==
  IF f = "LH" THEN {"q1", "qbar1"}
  ELSE IF f = "HH" THEN {"q1", "qbar1", "q2", "qbar2"}
  ELSE {}

QUntaggedPass(perm, mtp, f, jets) ==
  \A r \in QUntaggedRoles(f) : ~TagVeto(perm, mtp[r], jets, FALSE)

\* indexes1 of the symmetry strategies: the roles compared up to a swap,
\* pair after pair.
SymmetricRoles(f, s) ==
  LET bb == IF s = "BBbarSymmetry" THEN <<"b", "bbar">> ELSE <<>>
  IN IF f = "LH" THEN <<"q1", "qbar1">> \o bb
     ELSE IF f = "LL" THEN bb
     ELSE IF f = "HH" THEN <<"q1", "qbar1", "q2", "qbar2">> \o bb
     ELSE <<>>

\* indexes2: the roles that must be matched to the same jet.
AsymmetricRoles(f) ==
  IF f \in {"LH", "LL", "HH"} THEN <<"b1", "b2">> ELSE <<>>

\* A loop body that looks for the same permutation only, not for a swap.
SwapFoundSame(visited, perm, mtp, f, s) ==
  LET indexes1 == SymmetricRoles(f, s)
      indexes2 == AsymmetricRoles(f)
  IN /\ \A k \in 1..Len(indexes2) :
          At(visited, mtp[indexes2[k]]) = At(perm, mtp[indexes2[k]])
     /\ \A k \in 1..Len(indexes1) :
          At(visited, mtp[indexes1[k]]) = At(perm, mtp[indexes1[k]])

\* The body of the loop over the visited permutations: a swap was found.
SwapFound(visited, perm, mtp, f, s) ==
  LET indexes1 == SymmetricRoles(f, s)
      indexes2 == AsymmetricRoles(f)
      asymmetric_part ==
        \A k \in 1..Len(indexes2) :
          At(visited, mtp[indexes2[k]]) = At(perm, mtp[indexes2[k]])
      symmetric_part ==
        \A i \in 0..((Len(indexes1) \div 2) - 1) :
          LET a == mtp[At(indexes1, 2 * i)]
              b == mtp[At(indexes1, 2 * i + 1)]
              same == At(visited, a) = At(perm, a) /\ At(visited, b) = At(perm, b)
              swap == At(visited, a) = At(perm, b) /\ At(visited, b) = At(perm, a)
          IN same \/ swap
  IN asymmetric_part /\ symmetric_part

SymmetryPass(perm, retained, mtp, f, s) ==
  \A k \in 1..Len(retained) : ~SwapFound(retained[k], perm, mtp, f, s)

\* The roles a strategy looks up in map_to_part without testing for end().
LookedUp(f, s) ==
  IF s = "BTagged" THEN {"b1", "b2", "b", "bbar"}
  ELSE IF s = "QUntagged" THEN QUntaggedRoles(f)
  ELSE IF s \in {"QQbarSymmetry", "BBbarSymmetry"}
  THEN {SymmetricRoles(f, s)[k] : k \in 1..Len(SymmetricRoles(f, s))}
       \cup {AsymmetricRoles(f)[k] : k \in 1..Len(AsymmetricRoles(f))}
  ELSE {}

\* One strategy of the switch.
StrategyPass(perm, retained, mtp, f, jets, s) ==
  IF s = "BTagged" THEN BTaggedPass(perm, mtp, jets)
  ELSE IF s = "QUntagged" THEN QUntaggedPass(perm, mtp, f, jets)
  ELSE IF s \in {"QQbarSymmetry", "BBbarSymmetry"}
  THEN SymmetryPass(perm, retained, mtp, f, s)
  ELSE TRUE

\* accept_perm(perm, strategies): the strategies in order, the first veto
\* returns false.
RECURSIVE accept_perm(_, _, _, _, _, _, _)
accept_perm(perm, strategies, retained, mtp, f, jets, g) ==
  IF strategies = <<>> THEN [ok |-> TRUE, ub |-> FALSE]
  ELSE IF ~(LookedUp(f, Head(strategies)) \subseteq DOMAIN mtp)
  THEN [ok |-> g.accept, ub |-> TRUE]
  ELSE IF ~StrategyPass(perm, retained, mtp, f, jets, Head(strategies))
  THEN [ok |-> FALSE, ub |-> FALSE]
  ELSE accept_perm(perm, Tail(strategies), retained, mtp, f, jets, g)

(***************************************************************************)
(* get_permutation_constants().                                            *)
(***************************************************************************)
\* The roles whose energy is an integration variable, with the kind of
\* their window, in the order of the code.
EnergyRoles(f, h) ==
  LET bbar == IF h = "TTBB" THEN <<<<"bbar", "B">>>> ELSE <<>>
  IN IF f = "LH" THEN <<<<"q1", "Q">>, <<"b", "B">>>> \o bbar
     ELSE IF f = "LL" THEN <<<<"b", "B">>>> \o bbar
     ELSE IF f = "HH" THEN <<<<"q1", "Q">>, <<"q2", "Q">>, <<"b", "B">>>> \o bbar
     ELSE <<>>

\* DeltaE of one role: obs_jets[ perm[pos] ] is read whatever perm[pos] is.
DeltaE(perm, pos, kind, jets, g) ==
  IF At(perm, pos) < 0 \/ At(perm, pos) >= Len(jets)
  THEN [v |-> g.width, ub |-> TRUE]
  ELSE LET obj == At(jets, At(perm, pos))
       IN [v |-> IF kind = "Q"
                 THEN getObs(obj, "E_HIGH_Q") - getObs(obj, "E_LOW_Q")
                 ELSE getObs(obj, "E_HIGH_B") - getObs(obj, "E_LOW_B"),
           ub |-> FALSE]

RECURSIVE ConstLoop(_, _, _, _, _, _)
ConstLoop(roles, perm, mtp, jets, g, acc) ==
  IF roles = <<>> THEN acc
  ELSE LET d == DeltaE(perm, mtp[Head(roles)[1]], Head(roles)[2], jets, g)
       IN ConstLoop(Tail(roles), perm, mtp, jets, g,
                    [p |-> acc.p * d.v, ub |-> acc.ub \/ d.ub])

get_permutation_constants(perm, f, h, mtp, jets, g) ==
  ConstLoop(EnergyRoles(f, h), perm, mtp, jets, g, [p |-> 1, ub |-> FALSE])

(***************************************************************************)
(* make_assumption(): the loop over perm_indexes.                          *)
(***************************************************************************)
\* test_assumption(lost): enough jets for the assumption.
\* Variants of the test: one that wants the jets and the lost quarks to add up
\* exactly, one that lets every assumption through.
test_assumption_exact(njets, nlost, naive) == njets + nlost = naive

test_assumption_none(njets, nlost, naive) == njets + nlost >= 0 /\ naive >= 0

test_assumption(njets, nlost, naive) == ~(njets + nlost < naive)

\* (*it - 1)/3: the slot written for a variable of the lost list (the list
\* holds cos and phi variables, whose value is at least 1).
LostParticle(v) == (v - 1) \div 3

\* The inner loop over the lost list: perm[lost_particle] = -1 at every even
\* position of the list.
RECURSIVE ForceLost(_, _, _)
ForceLost(pu, lost, count) ==
  IF count >= Len(lost) THEN pu
  ELSE IF count % 2 = 0
  THEN IF LostParticle(At(lost, count)) < Len(pu.perm)
       THEN ForceLost([perm |-> [pu.perm EXCEPT ![LostParticle(At(lost, count)) + 1] = Lost],
                       ub |-> pu.ub], lost, count + 1)
       ELSE ForceLost([perm |-> pu.perm, ub |-> TRUE], lost, count + 1)
  ELSE ForceLost(pu, lost, count + 1)

\* The number of entries of perm below zero.
CountLost(perm) == Cardinality({k \in 1..Len(perm) : perm[k] < 0})

\* A loop body without the filter on the number of lost quarks.
CountMatchesAny(perm, lost) == Len(perm) >= 0 /\ Len(lost) >= 0

\* The filter of the loop body: the permutation goes on to accept_perm.
CountMatches(perm, lost) == CountLost(perm) = Len(lost) \div 2

\* One iteration of the loop; st holds perm_indexes_assumption (pia),
\* perm_const_assumption (pca) and whether undefined behaviour was met.
AssumeStep(st, perm0, lost, strategies, mtp, f, h, jets, g) ==
  LET pu == ForceLost([perm |-> perm0, ub |-> FALSE], lost, 0)
  IN IF ~CountMatches(pu.perm, lost) THEN [st EXCEPT !.ub = st.ub \/ pu.ub]
     ELSE LET a == accept_perm(pu.perm, strategies, st.pia, mtp, f, jets, g)
          IN IF ~a.ok THEN [st EXCEPT !.ub = st.ub \/ pu.ub \/ a.ub]
             ELSE LET c == get_permutation_constants(pu.perm, f, h, mtp, jets, g)
                  IN [pia |-> Append(st.pia, pu.perm),
                      pca |-> Append(st.pca, c.p),
                      ub |-> st.ub \/ pu.ub \/ a.ub \/ c.ub]

\* The loop over perm_indexes[lo..hi] (split in halves only to keep the
\* evaluation shallow).
RECURSIVE AssumeLoop(_, _, _, _, _, _, _, _, _, _, _)
AssumeLoop(st, perms, lo, hi, lost, strategies, mtp, f, h, jets, g) ==
  IF lo > hi THEN st
  ELSE IF lo = hi
  THEN AssumeStep(st, perms[lo], lost, strategies, mtp, f, h, jets, g)
  ELSE LET mid == (lo + hi) \div 2
           first == AssumeLoop(st, perms, lo, mid, lost, strategies, mtp, f, h, jets, g)
       IN IF first.ub \in BOOLEAN
          THEN AssumeLoop(first, perms, mid + 1, hi, lost, strategies, mtp, f, h, jets, g)
          ELSE first

(***************************************************************************)
(* probability() and Eval().  The external collaborators (the phase-space  *)
(* kinematics, the transfer functions, the matrix elements) answer for one *)
(* permutation with an outcome: reject is create_PS() < 0, tf the product  *)
(* of the transfer functions (tf_nan if it is NaN), oor the number of      *)
(* transfer functions out of range, me the matrix element (me_nan if NaN). *)
(***************************************************************************)
\* The physical answer.
Nominal ==
  [reject |-> FALSE, tf |-> 2, tf_nan |-> FALSE, oor |-> 0, me |-> 3, me_nan |-> FALSE]

Outcomes ==
  { Nominal,
    [reject |-> TRUE,  tf |-> 2, tf_nan |-> FALSE, oor |-> 0, me |-> 3, me_nan |-> FALSE],
    [reject |-> TRUE,  tf |-> 2, tf_nan |-> TRUE,  oor |-> 0, me |-> 3, me_nan |-> FALSE],
    [reject |-> FALSE, tf |-> 2, tf_nan |-> TRUE,  oor |-> 0, me |-> 3, me_nan |-> FALSE],
    [reject |-> FALSE, tf |-> 2, tf_nan |-> FALSE, oor |-> 1, me |-> 3, me_nan |-> FALSE],
    [reject |-> FALSE, tf |-> 2, tf_nan |-> FALSE, oor |-> 0, me |-> 3, me_nan |-> TRUE] }

\* The answers of the collaborators at one point x, per permutation: at most
\* one class of permutations departs from the physical answer.
Envs ==
  {env \in [0..(EnvPeriod - 1) -> Outcomes] :
     Cardinality({k \in 0..(EnvPeriod - 1) : env[k] # Nominal}) <= 1}

OutcomeOf(env, n_perm) == env[n_perm % EnvPeriod]

\* transfer(): the weight, NaN clamped to 0 with error_code = 1, and accept,
\* the number of transfer functions out of range; the weight is 1 and no
\* transfer function is asked without them in the integration code and for
\* the final state TTH.  (The integration code is 0 or has every part of
\* the integrand.)
transfer(o, int_code, f) ==
  IF int_code = 0 \/ f = "TTH" THEN [w |-> 1, err |-> FALSE, accept |-> 0]
  ELSE IF o.tf_nan THEN [w |-> 0, err |-> TRUE, accept |-> o.oor]
  ELSE [w |-> o.tf, err |-> FALSE, accept |-> o.oor]

\* matrix(): the matrix element, NaN clamped to 0.
matrix(o) == IF o.me_nan THEN 0 ELSE o.me

\* A probability() that returns 0 for a rejected point without counting it.
probabilityUncounted(o, c, f) ==
  IF c.int_code = 0 THEN [p |-> 1, skip |-> FALSE, err |-> FALSE]
  ELSE IF o.reject THEN [p |-> 0, skip |-> FALSE, err |-> FALSE]
  ELSE LET t == transfer(o, c.int_code, f)
       IN IF c.tf_suppress # 0 /\ t.accept >= c.tf_suppress
          THEN [p |-> 0, skip |-> FALSE, err |-> t.err]
          ELSE [p |-> t.w * matrix(o), skip |-> FALSE, err |-> t.err]

\* probability(x, n_perm): the value, whether the point was skipped and
\* whether error_code was set.
probability(o, c, f) ==
  IF c.int_code = 0 THEN [p |-> 1, skip |-> FALSE, err |-> FALSE]
  ELSE IF o.reject THEN [p |-> 0, skip |-> TRUE, err |-> FALSE]
  ELSE LET t == transfer(o, c.int_code, f)
       IN IF c.tf_suppress # 0 /\ t.accept >= c.tf_suppress
          THEN [p |-> 0, skip |-> FALSE, err |-> t.err]
          ELSE [p |-> t.w * matrix(o), skip |-> FALSE, err |-> t.err]

\* A loop body without the continue of the per-permutation mode.
EvalStepAll(acc, n_perm, pca, env, c, tp, f) ==
  LET p0 == probability(OutcomeOf(env, n_perm), c, f)
      p1 == At(pca, n_perm)
  IN [p |-> acc.p + p0.p * p1 + 0 * tp,
      skip |-> acc.skip + B2I(p0.skip),
      err |-> acc.err \/ p0.err]

\* One iteration of the loop of Eval(); acc holds p and what the calls of
\* probability() change.
EvalStep(acc, n_perm, pca, env, c, tp, f) ==
  IF c.perm_int /\ n_perm # tp THEN acc
  ELSE LET p0 == probability(OutcomeOf(env, n_perm), c, f)
           p1 == At(pca, n_perm)
       IN [p |-> acc.p + p0.p * p1,
           skip |-> acc.skip + B2I(p0.skip),
           err |-> acc.err \/ p0.err]

\* The loop of Eval() over the permutations lo..hi (split in halves only to
\* keep the evaluation shallow).
RECURSIVE EvalLoop(_, _, _, _, _, _, _, _)
EvalLoop(acc, lo, hi, pca, env, c, tp, f) ==
  IF lo > hi THEN acc
  ELSE IF lo = hi THEN EvalStep(acc, lo, pca, env, c, tp, f)
  ELSE LET mid == (lo + hi) \div 2
           first == EvalLoop(acc, lo, mid, pca, env, c, tp, f)
       IN IF first.err \in BOOLEAN
          THEN EvalLoop(first, mid + 1, hi, pca, env, c, tp, f)
          ELSE first

\* The value of Eval(x), the points skipped and whether error_code was set.
EvalValue(size, pca, env, c, tp, f) ==
  EvalLoop([p |-> 0, skip |-> 0, err |-> FALSE], 0, size - 1, pca, env, c, tp, f)

(***************************************************************************)
(* solve(): the energy of a daughter on its mass shell.  A double is the   *)
(* exact fraction n/d in lowest terms; the arguments explored are those    *)
(* for which every square root taken is itself a fraction, so no rounding  *)
(* enters.  The largest double is the fraction 1/0: it exceeds every other *)
(* value and absorbs whatever is subtracted from it.                       *)
(***************************************************************************)
RECURSIVE GCD(_, _)
GCD(m, n) == IF n = 0 THEN m ELSE GCD(n, m % n)

\* The fraction n/d in lowest terms with a denominator that is not negative.
Norm(n, d) ==
  LET g == GCD(IF n < 0 THEN -n ELSE n, IF d < 0 THEN -d ELSE d)
      s == IF d < 0 THEN -1 ELSE 1
  IN IF g = 0 THEN [n |-> 0, d |-> 0]
     ELSE [n |-> (s * n) \div g, d |-> (s * d) \div g]

Zero == Norm(0, 1)
One == Norm(1, 1)
Two == Norm(2, 1)
numeric_max == Norm(1, 0)

Plus(x, y) ==
  IF x.d = 0 \/ y.d = 0 THEN Norm(x.n * y.d + y.n * x.d, 0)
  ELSE LET g == GCD(x.d, y.d)
       IN Norm(x.n * (y.d \div g) + y.n * (x.d \div g), (x.d \div g) * y.d)

Minus(x, y) == Plus(x, [n |-> -y.n, d |-> y.d])

Times(x, y) == Norm(x.n * y.n, x.d * y.d)

Over(x, y) == Norm(x.n * y.d, x.d * y.n)

Less(x, y) == x.n * y.d < y.n * x.d

\* TMath::Abs.
Fabs(x) == [n |-> IF x.n < 0 THEN -x.n ELSE x.n, d |-> x.d]

\* The root of a square number.
ISqrt(n) == CHOOSE r \in 0..n : r * r = n

IsSquare(x) ==
  /\ x.n >= 0
  /\ \E r \in 0..x.n : r * r = x.n
  /\ \E r \in 0..x.d : r * r = x.d

\* sqrt of a fraction whose terms are squares.
Sqrt(x) == Norm(ISqrt(x.n), ISqrt(x.d))

\* The rejection: accept = -1 and the largest double returned.
NoSolution == [E |-> numeric_max, accept |-> -1]

\* Lines 1955-1959 with the b of a massless daughter turned round.
masslessMirrored(a, b, accept) ==
  IF Less(b, One)
  THEN [E |-> Over(a, Plus(One, b)), accept |-> accept]
  ELSE NoSolution

\* Lines 1955-1959: the massless formula.
massless(a, b, accept) ==
  IF Less(b, One)
  THEN [E |-> Over(a, Minus(One, b)), accept |-> accept]
  ELSE NoSolution

\* a2 + b2 - 1, the argument of the square root.
Radicand(a, b) == Minus(Plus(Times(a, a), Times(b, b)), One)

\* Line 1969.
discr(a, b) ==
  Minus(Minus(Plus(Times(a, a), Times(b, b)), Times(Times(a, a), Times(b, b))),
        One)

\* Lines 1983-1984: the roots.
g_p(a, b) ==
  Over(Plus(a, Times(Fabs(b), Sqrt(Radicand(a, b)))), Minus(One, Times(b, b)))

\* A smaller root that is the larger one.
g_m_larger(a, b) == g_p(a, b)

g_m(a, b) ==
  Over(Minus(a, Times(Fabs(b), Sqrt(Radicand(a, b)))), Minus(One, Times(b, b)))

\* A test that lets every root pass.
BelowOneNever(g) == FALSE

\* Lines 1987 and 1998: the root is below the rest mass.
BelowOne(g) == Less(g, One)

\* Line 2009: the root next to the target.
Closest(target, gp, gm) ==
  IF Less(Fabs(Minus(target, gp)), Fabs(Minus(target, gm))) THEN gp ELSE gm

\* Lines 1962-2036: the massive daughter.
massive(a, b, M, target, accept) ==
  IF Less(Radicand(a, b), Zero) THEN NoSolution
  ELSE LET gp == g_p(a, b)
       IN IF BelowOne(gp) THEN NoSolution
          ELSE LET gm == IF BelowOne(g_m(a, b)) THEN gp ELSE g_m(a, b)
               IN IF Less(Zero, b)
                  THEN IF Less(discr(a, b), Zero)
                       THEN [E |-> Times(Closest(target, gp, gm), M),
                             accept |-> accept]
                       ELSE [E |-> Times(gp, M), accept |-> accept]
                  ELSE IF Less(Zero, discr(a, b))
                       THEN [E |-> Times(gm, M), accept |-> accept]
                       ELSE NoSolution

\* M < 1e-03.
IsMassless(M) == Less(M, Norm(1, 1000))

\* solve(p4_w, DM2, M, e_b, target, accept): in.E and in.beta are the energy
\* and the velocity of p4_w, in.cos the cosine of its angle to e_b.
solve(in) ==
  LET a == Over(in.DM2, in.E)
      b == in.cos
  IN IF IsMassless(in.M) THEN massless(a, b, in.accept)
     ELSE massive(Over(a, in.M), Times(b, in.beta), in.M, in.target, in.accept)

\* The arguments of solve() explored: a parent of energy 8 and velocity 4/5,
\* a daughter without mass or of mass 5, all cosines in eighths.
SolveGrid ==
  {[E |-> Norm(8, 1), beta |-> Norm(4, 5), cos |-> Norm(k, 8),
    DM2 |-> Norm(dm, 1), M |-> Norm(m, 1), target |-> t, accept |-> acc] :
     k \in -8..8, dm \in (-MaxDM2)..MaxDM2, m \in {0, 5},
     t \in {Norm(n, 1) : n \in 0..MaxTarget} \cup {numeric_max},
     acc \in {0, -1}}

\* The a and b of the massive branch.
MassiveA(in) == Over(Over(in.DM2, in.E), in.M)
MassiveB(in) == Times(in.cos, in.beta)

SolveInputs ==
  {in \in SolveGrid :
     \/ IsMassless(in.M)
     \/ Less(Radicand(MassiveA(in), MassiveB(in)), Zero)
     \/ IsSquare(Radicand(MassiveA(in), MassiveB(in)))}

NoSolve == [called |-> FALSE]

(***************************************************************************)
(* create_PS_LH(), create_PS_LL(), create_PS_HH(): the eight particles of  *)
(* the phase-space point and the reject flag.                              *)
(***************************************************************************)
NoPS == [called |-> FALSE]

\* The energy of the role comes from solve(): the second quark of each W
\* and the b of each top, and bbar unless the hypothesis is TTBB (its
\* energy is then an integration variable).
Solved(r, h) ==
  r \in {"qbar1", "b1", "qbar2", "b2"} \/ (r = "bbar" /\ h # "TTBB")

\* The arguments of the solve() calls of create_PS explored.
PSSolves ==
  {in \in SolveInputs :
     /\ in.accept = 0 /\ in.target = numeric_max
     /\ in.DM2 \in {Norm(-25, 1), Norm(25, 1)}
     /\ in.cos \in {Norm(-1, 1), One}}

\* A solve() that starts from a fresh flag at every call.
solved_afresh(acc, in) == solve([in EXCEPT !.accept = 0])

\* E = solve(..., accept): accept is passed by reference.
solved(acc, in) == solve([in EXCEPT !.accept = acc])

(***************************************************************************)
(* get_edges() and get_width(): the integration range and its volume, in   *)
(* the fractions of solve().                                               *)
(***************************************************************************)
\* TMath::Pi() by a whole number: only differences, products and the order
\* of the edges are taken.
Pi == Norm(3, 1)

\* cfg.emax, and the 0.99 of the top quark's cosine.
Emax == Norm(2, 1)

CosTop == Norm(99, 100)

Neg(x) == Minus(Zero, x)

\* The value written for a mandatory variable v; cfg.m_range_CL is 1, so
\* that phi_edges is (-Pi, +Pi).
EdgeOf(v, edge) ==
  LET up == IF v \in {P_t, P_tbar} THEN Emax
            ELSE IF v \in {cos_t, cos_tbar} THEN CosTop
            ELSE IF v = Pz_h THEN Over(Emax, Two)
            ELSE IF v % 3 = 2 THEN Pi
            ELSE One
      low == IF v \in {P_t, P_tbar} THEN Zero
             ELSE IF v < P_t /\ v % 3 = 0 THEN Zero
             ELSE Neg(up)
  IN IF edge = 1 THEN up ELSE low

\* The value written for the entry count_extra of the lost list.
LostEdge(count_extra, edge) ==
  LET up == IF count_extra % 2 = 0 THEN One ELSE Pi
  IN IF edge = 1 THEN up ELSE Neg(up)

\* lim[map_to_var[v]] = x; a write past the end of lim is left out.
SetLim(lim, mtv, v, x) ==
  IF v \in DOMAIN mtv /\ mtv[v] < Len(lim) THEN [lim EXCEPT ![mtv[v] + 1] = x] ELSE lim

RECURSIVE EdgeLoop(_, _, _, _, _)
EdgeLoop(lim, mtv, vs, k, edge) ==
  IF k > Len(vs) THEN lim
  ELSE EdgeLoop(SetLim(lim, mtv, vs[k], EdgeOf(vs[k], edge)), mtv, vs, k + 1, edge)

RECURSIVE LostEdgeLoop(_, _, _, _, _)
LostEdgeLoop(lim, mtv, lost, count_extra, edge) ==
  IF count_extra >= Len(lost) THEN lim
  ELSE LostEdgeLoop(SetLim(lim, mtv, At(lost, count_extra), LostEdge(count_extra, edge)),
                    mtv, lost, count_extra + 1, edge)

\* get_edges(lim, lost, nvar, edge) on an array lim of nvar entries that
\* nothing has written yet: the entries get_edges leaves alone keep what
\* the stack held.
get_edges(lim, lost, edge, f, h, mtv) ==
  LET base == EdgeLoop(lim, mtv, Mandatory(f, h), 1, edge)
  IN IF f \in {"LH", "LL", "HH"} THEN LostEdgeLoop(base, mtv, lost, 0, edge)
     ELSE base

\* get_width(xL, xU, nvar).
RECURSIVE get_width(_, _, _)
get_width(lo, up, nvar) ==
  IF nvar <= 0 THEN One
  ELSE Times(get_width(lo, up, nvar - 1), Fabs(Minus(up[nvar], lo[nvar])))

\* What the entries of xL and of xU hold before they are written.
StackGarbage == {<<Zero, One>>, <<One, Zero>>}

\* double xL[npar] (or xU) as it is declared.
Declared(n, g) == [i \in 1..n |-> g]

(***************************************************************************)
(* The state of an Integrand.                                              *)
(***************************************************************************)
VARIABLES
  obs_jets,                 \* the observed jets
  nlep,                     \* obs_leptons.size()
  nmet,                     \* obs_mets.size()
  cfg,                      \* the configuration
  fs, hypo,                 \* final state and hypothesis
  naive_jet_counting, extra_jets, num_of_vars, ps_dim,
  perm_indexes, perm_indexes_assumption, perm_const_assumption,
  map_to_var, map_to_part,
  n_calls, n_skip, n_max_calls, error_code, this_perm,
  ig2,                      \* the integrator ig2 points to: "null" (no
                            \* integrator), "live", "deleted" or
                            \* "deleted_twice"
  pc,                       \* where run() stands
  arg,                      \* the arguments of the run() in progress
  npar,                     \* make_assumption's number of parameters
  integrals,                \* the calls of Integral() of this run()
  prob, err2, xL, xU,       \* make_assumption's sums and its integration range
  made,                     \* the integrators this run() has constructed
  results,                  \* what each Integral() of this run() returned
  last,                     \* the last evaluation of the integrand
  out,                      \* the last Result Record returned
  ub,                       \* undefined behaviour was met
  sol,                      \* a call of solve(): its arguments and its result
  ps                        \* a call of create_PS(): the phase-space point
                            \* under construction and the reject flag

vars ==
  <<obs_jets, nlep, nmet, cfg, fs, hypo, naive_jet_counting, extra_jets,
    num_of_vars, ps_dim, perm_indexes, perm_indexes_assumption,
    perm_const_assumption, map_to_var, map_to_part, n_calls, n_skip,
    n_max_calls, error_code, this_perm, ig2, pc, arg, npar, integrals,
    prob, err2, xL, xU, made, results, last, out, ub, sol, ps>>

NoEval == [done |-> FALSE]

NoOut == [returned |-> FALSE]

\* The members as the constructor leaves them.
Constructed ==
  /\ fs = "Undefined" /\ hypo = "Undefined"
  /\ naive_jet_counting = 0 /\ extra_jets = 0 /\ num_of_vars = 0 /\ ps_dim = 0
  /\ perm_indexes = <<>> /\ perm_indexes_assumption = <<>>
  /\ perm_const_assumption = <<>>
  /\ map_to_var = EmptyMap /\ map_to_part = EmptyMap
  /\ n_calls = 0 /\ n_skip = 0 /\ n_max_calls = 0 /\ error_code = 0
  /\ this_perm = 0 /\ ig2 = "null"
  /\ npar = 0 /\ integrals = 0 /\ last = NoEval /\ out = NoOut /\ ub = FALSE
  /\ prob = Zero /\ err2 = Zero /\ xL = <<>> /\ xU = <<>> /\ made = 0
  /\ results = <<>>

(***************************************************************************)
(* run(f, h, list), in the steps in which it can be observed: init() and   *)
(* the creation of the integrator; make_assumption() up to the first call  *)
(* of the integrator; the evaluations of the integrand by the integrator;  *)
(* the return of Integral(); the Result Record and next_hypo().            *)
(***************************************************************************)
\* cfg.calls[fs][h][list.size()/2]: the default number of calls.
CallsEntry(f, h, k) ==
  1000 + 100 * (CHOOSE i \in 0..3 : <<"LH", "LL", "HH", "TTH">>[i + 1] = f)
       + 10 * B2I(h = "TTBB") + k

\* A budget that is always the entry of the table.
BudgetOfTable(c, f, h, k) == CallsEntry(f, h, k)

\* run(), lines 441-443: the number of calls handed to the integrator.
Budget(c, f, h, k) ==
  IF c.is_default THEN CallsEntry(f, h, k) ELSE c.n_max_calls

\* if(ig2!=nullptr) delete ig2: the pointer keeps its value, and a second
\* delete of the same integrator is undefined.
Deleted(h) ==
  IF h = "null" THEN "null" ELSE IF h = "live" THEN "deleted" ELSE "deleted_twice"

\* A next_hypo() that keeps the permutations of init().
next_hypo_keeping ==
  /\ ig2' = Deleted(ig2)
  /\ perm_indexes_assumption' = <<>>
  /\ perm_const_assumption' = <<>>
  /\ map_to_var' = EmptyMap
  /\ map_to_part' = EmptyMap
  /\ n_calls' = 0
  /\ n_skip' = 0
  /\ UNCHANGED perm_indexes

\* next_hypo().
next_hypo ==
  /\ ig2' = Deleted(ig2)
  /\ perm_indexes' = <<>>
  /\ perm_indexes_assumption' = <<>>
  /\ perm_const_assumption' = <<>>
  /\ map_to_var' = EmptyMap
  /\ map_to_part' = EmptyMap
  /\ n_calls' = 0
  /\ n_skip' = 0

\* run() from its entry to the call of make_assumption(); the assertion of
\* init() ends the process.
RunInit(f, h, list) ==
  /\ pc \in {"idle", "returned"}
  /\ arg' = [f |-> f, h |-> h, list |-> list]
  /\ hypo' = h
  /\ fs' = f
  /\ IF nlep # LeptonsOf(f)
     THEN /\ pc' = "aborted"
          /\ UNCHANGED <<obs_jets, nlep, nmet, cfg, naive_jet_counting, extra_jets,
                         num_of_vars, ps_dim, perm_indexes, perm_indexes_assumption,
                         perm_const_assumption, map_to_var, map_to_part, n_calls,
                         n_skip, n_max_calls, error_code, this_perm, ig2, npar,
                         integrals, prob, err2, xL, xU, made, results, last, out, ub, sol, ps>>
     ELSE /\ naive_jet_counting' = NaiveJetCounting(f)
          /\ obs_jets' = [k \in 1..Len(obs_jets) |-> WithEdges(obs_jets[k])]
          /\ perm_indexes' =
               perm_indexes \o EnumeratePerms(cfg.highpt_first, Len(obs_jets), f)
          /\ ps_dim' = PsDim(f, h)
          /\ num_of_vars' = NumOfVars(f, h, nlep, nmet)
          /\ n_max_calls' = Budget(cfg, f, h, Len(list) \div 2)
          /\ ig2' = "live"
          /\ made' = 1
          /\ integrals' = 0
          /\ results' = <<>>
          /\ prob' = Zero /\ err2' = Zero /\ xL' = <<>> /\ xU' = <<>>
          /\ last' = NoEval
          /\ pc' = "assume"
          /\ UNCHANGED <<nlep, nmet, cfg, extra_jets, perm_indexes_assumption,
                         perm_const_assumption, map_to_var, map_to_part, n_calls,
                         n_skip, error_code, this_perm, npar, out, ub, sol, ps>>

\* The loop of make_assumption() over perm_indexes under the garbage g.
Assumed(g) ==
  AssumeLoop([pia |-> <<>>, pca |-> perm_const_assumption, ub |-> FALSE],
             perm_indexes, 1, Len(perm_indexes), arg.list, cfg.perm_pruning,
             FillMapPart(map_to_part, fs), fs, hypo, obs_jets, g)

\* make_assumption() from test_assumption() to the first Integral().
AssumeWith(st) ==
  /\ extra_jets' = Len(obs_jets) + (Len(arg.list) \div 2) - naive_jet_counting
  /\ map_to_part' = FillMapPart(map_to_part, fs)
  /\ map_to_var' = FillMapVar(map_to_var, fs, hypo, arg.list)
  /\ perm_indexes_assumption' = st.pia
  /\ perm_const_assumption' = st.pca
  /\ npar' = num_of_vars + Len(arg.list)
  /\ \E g \in StackGarbage :
       LET n == num_of_vars + Len(arg.list)
           mtv == FillMapVar(map_to_var, fs, hypo, arg.list)
       IN /\ xL' = get_edges(Declared(n, g[1]), arg.list, 0, fs, hypo, mtv)
          /\ xU' = get_edges(Declared(n, g[2]), arg.list, 1, fs, hypo, mtv)
  /\ ub' = (ub \/ st.ub \/ nmet = 0)
  /\ IF cfg.perm_int
     THEN IF Len(st.pia) = 0
          THEN pc' = "finish" /\ UNCHANGED <<this_perm, ig2, made>>
          ELSE pc' = "integrate" /\ this_perm' = 0 /\ ig2' = "live" /\ made' = made + 1
     ELSE pc' = "integrate" /\ UNCHANGED <<this_perm, ig2, made>>
  /\ UNCHANGED <<obs_jets, nlep, nmet, cfg, fs, hypo, naive_jet_counting,
                 num_of_vars, ps_dim, perm_indexes, n_calls, n_skip, n_max_calls,
                 error_code, arg, integrals, prob, err2, results, last, out, sol, ps>>

\* The process dies of a wild read or write.
Crash ==
  /\ pc' = "crashed"
  /\ ub' = TRUE
  /\ UNCHANGED <<obs_jets, nlep, nmet, cfg, fs, hypo, naive_jet_counting,
                 extra_jets, num_of_vars, ps_dim, perm_indexes,
                 perm_indexes_assumption, perm_const_assumption, map_to_var,
                 map_to_part, n_calls, n_skip, n_max_calls, error_code, this_perm,
                 ig2, arg, npar, integrals, prob, err2, xL, xU, made, results, last, out, sol, ps>>

MakeAssumption ==
  /\ pc = "assume"
  /\ IF ~test_assumption(Len(obs_jets), Len(arg.list) \div 2, naive_jet_counting)
     THEN /\ pc' = "finish"
          /\ UNCHANGED <<obs_jets, nlep, nmet, cfg, fs, hypo, naive_jet_counting,
                         extra_jets, num_of_vars, ps_dim, perm_indexes,
                         perm_indexes_assumption, perm_const_assumption,
                         map_to_var, map_to_part, n_calls, n_skip, n_max_calls,
                         error_code, this_perm, ig2, arg, npar, integrals, prob,
                         err2, xL, xU, made, results, last, out, ub, sol, ps>>
     ELSE LET st == Assumed(NoGarbage)
          IN IF ~st.ub /\ nmet # 0
             THEN AssumeWith(st)
             ELSE \/ Crash
                  \/ \E g \in Garbage : AssumeWith(Assumed(g))

\* One call of Eval(x) by the integrator; env is what the collaborators
\* answer at x.
Eval(env) ==
  /\ pc = "integrate"
  /\ n_calls < MaxCalls
  /\ LET r == EvalValue(Len(perm_indexes_assumption), perm_const_assumption,
                        env, cfg, this_perm, fs)
     IN /\ last' = [done |-> TRUE, p |-> r.p, env |-> env, perm |-> this_perm,
                    calls |-> n_calls, skips |-> n_skip, errs |-> error_code]
        /\ n_skip' = n_skip + r.skip
        /\ error_code' = IF r.err THEN 1 ELSE error_code
  /\ n_calls' = n_calls + 1
  /\ UNCHANGED <<obs_jets, nlep, nmet, cfg, fs, hypo, naive_jet_counting,
                 extra_jets, num_of_vars, ps_dim, perm_indexes,
                 perm_indexes_assumption, perm_const_assumption, map_to_var,
                 map_to_part, n_max_calls, this_perm, ig2, pc, arg, npar,
                 integrals, prob, err2, xL, xU, made, results, out, ub, sol, ps>>

\* What Integral() and Error() of the external integrator return.
IntegralResults == {[v |-> Two, e |-> One], [v |-> Norm(3, 1), e |-> Two]}

NominalResult == [v |-> Two, e |-> One]

\* prob += ig2->Integral(xL, xU) and err2 += TMath::Power(ig2->Error(), 2),
\* and a variant that adds the errors themselves.
AddIntegralLinear(acc, r) ==
  [prob |-> Plus(acc.prob, r.v), err2 |-> Plus(acc.err2, r.e)]

AddIntegral(acc, r) ==
  [prob |-> Plus(acc.prob, r.v), err2 |-> Plus(acc.err2, Times(r.e, r.e))]

\* volume = get_width(xL, xU, npar).
volume == get_width(xL, xU, npar)

\* if(!cfg.int_code) prob /= volume, and a variant that always divides.
NormalisedAlways(p, vol, int_code) == IF int_code >= 0 THEN Over(p, vol) ELSE p

Normalised(p, vol, int_code) == IF int_code = 0 THEN Over(p, vol) ELSE p

\* sqrt(x) for x >= 0: the number that is not negative and whose square
\* is x.
Root(x) == [square |-> x]

\* Integral() returns r: the next permutation in per-permutation mode, else
\* the end of make_assumption().
IntegralDone(r) ==
  /\ pc = "integrate"
  /\ integrals' = integrals + 1
  /\ results' = Append(results, [v |-> r.v, e |-> r.e, perm |-> this_perm,
                                 instance |-> made])
  /\ prob' = AddIntegral([prob |-> prob, err2 |-> err2], r).prob
  /\ err2' = AddIntegral([prob |-> prob, err2 |-> err2], r).err2
  /\ IF cfg.perm_int /\ this_perm + 1 < Len(perm_indexes_assumption)
     THEN /\ this_perm' = this_perm + 1 /\ ig2' = "live" /\ made' = made + 1
          /\ pc' = "integrate"
     ELSE pc' = "finish" /\ UNCHANGED <<this_perm, ig2, made>>
  /\ UNCHANGED <<obs_jets, nlep, nmet, cfg, fs, hypo, naive_jet_counting,
                 extra_jets, num_of_vars, ps_dim, perm_indexes,
                 perm_indexes_assumption, perm_const_assumption, map_to_var,
                 map_to_part, n_calls, n_skip, n_max_calls, error_code, arg,
                 npar, xL, xU, last, out, ub, sol, ps>>

\* run() after make_assumption(): the Result Record, then next_hypo().
\* out.p and out.p_err are those make_assumption() wrote at its end; an
\* assumption that was skipped leaves them as MEMOutput declares them
\* (assumed is false and they read 0).
Finish ==
  /\ pc = "finish"
  /\ out' = [returned |-> TRUE,
             num_perm |-> Len(perm_indexes_assumption),
             final_state |-> fs,
             hypothesis |-> arg.h,
             assumption |-> Len(arg.list) \div 2,
             num_max_calls |-> n_max_calls,
             num_calls |-> n_calls,
             error_code |-> error_code,
             integrals |-> integrals,
             assumed |-> test_assumption(Len(obs_jets), Len(arg.list) \div 2,
                                         naive_jet_counting),
             p |-> IF test_assumption(Len(obs_jets), Len(arg.list) \div 2,
                                      naive_jet_counting)
                   THEN Normalised(prob, volume, cfg.int_code)
                   ELSE Zero,
             p_err |-> Root(err2)]
  /\ next_hypo
  /\ pc' = "returned"
  /\ UNCHANGED <<obs_jets, nlep, nmet, cfg, fs, hypo, naive_jet_counting,
                 extra_jets, num_of_vars, ps_dim, n_max_calls, error_code,
                 this_perm, arg, npar, integrals, prob, err2, xL, xU, made, results, last, ub, sol, ps>>

(***************************************************************************)
(* The calls a client makes between two run(): the objects of the event,   *)
(* their observables, the number of calls, the next event.                 *)
(***************************************************************************)
ObjectTypes == {"Jet", "Lepton", "MET"}

\* No run() is in progress.
Between == pc \in {"idle", "returned"}

\* push_back_object(p4, type).
push_back_object(type) ==
  /\ Between
  /\ obs_jets' = IF type = "Jet" THEN Append(obs_jets, NoObs) ELSE obs_jets
  /\ nlep' = IF type = "Lepton" THEN nlep + 1 ELSE nlep
  /\ nmet' = IF type = "MET" THEN nmet + 1 ELSE nmet
  /\ UNCHANGED <<cfg, fs, hypo, naive_jet_counting, extra_jets, num_of_vars,
                 ps_dim, perm_indexes, perm_indexes_assumption,
                 perm_const_assumption, map_to_var, map_to_part, n_calls, n_skip,
                 n_max_calls, error_code, this_perm, ig2, pc, arg, npar,
                 integrals, prob, err2, xL, xU, made, results, last, out, ub, sol, ps>>

\* add_object_observable(<<o, v>>, type): the observables of leptons and of
\* the missing energy are no part of the state.
add_object_observable(o, v, type) ==
  /\ Between
  /\ obs_jets' = IF type = "Jet" /\ Len(obs_jets) > 0
                 THEN [obs_jets EXCEPT ![Len(obs_jets)] = addObs(@, o, v)]
                 ELSE obs_jets
  /\ UNCHANGED <<nlep, nmet, cfg, fs, hypo, naive_jet_counting, extra_jets,
                 num_of_vars, ps_dim, perm_indexes, perm_indexes_assumption,
                 perm_const_assumption, map_to_var, map_to_part, n_calls, n_skip,
                 n_max_calls, error_code, this_perm, ig2, pc, arg, npar,
                 integrals, prob, err2, xL, xU, made, results, last, out, ub, sol, ps>>

\* set_ncalls(n).
set_ncalls(n) ==
  /\ Between
  /\ cfg' = [cfg EXCEPT !.n_max_calls = n, !.is_default = FALSE]
  /\ UNCHANGED <<obs_jets, nlep, nmet, fs, hypo, naive_jet_counting, extra_jets,
                 num_of_vars, ps_dim, perm_indexes, perm_indexes_assumption,
                 perm_const_assumption, map_to_var, map_to_part, n_calls, n_skip,
                 n_max_calls, error_code, this_perm, ig2, pc, arg, npar,
                 integrals, prob, err2, xL, xU, made, results, last, out, ub, sol, ps>>

\* next_event().
next_event ==
  /\ Between
  /\ obs_jets' = <<>>
  /\ nlep' = 0
  /\ nmet' = 0
  /\ error_code' = 0
  /\ num_of_vars' = 0
  /\ ps_dim' = 0
  /\ naive_jet_counting' = 0
  /\ extra_jets' = 0
  /\ n_calls' = 0
  /\ n_skip' = 0
  /\ cfg' = [cfg EXCEPT !.is_default = TRUE]
  /\ perm_indexes' = <<>>
  /\ perm_indexes_assumption' = <<>>
  /\ perm_const_assumption' = <<>>
  /\ map_to_var' = EmptyMap
  /\ map_to_part' = EmptyMap
  /\ UNCHANGED <<fs, hypo, n_max_calls, this_perm, ig2, pc, arg, npar,
                 integrals, prob, err2, xL, xU, made, results, last, out, ub, sol, ps>>

(***************************************************************************)
(* The inputs explored: an Integrand holding an event, and the arguments   *)
(* of the run() called on it.                                              *)
(***************************************************************************)
\* Jets as push_back_object and add_object_observable leave them.
PlainJet == NoObs
LightJet == addObs(NoObs, "BTAG", 2)
TaggedJet == addObs(NoObs, "BTAG", 8)
BorderJet == addObs(addObs(addObs(NoObs, "BTAG", BTagCut), "E_LOW_B", 5), "E_HIGH_B", 3)

SpecialJets == {LightJet, TaggedJet, BorderJet}

\* The events of n jets of which at most m are not plain.
JetLists(n, m) ==
  {js \in [1..n -> {PlainJet} \cup SpecialJets] :
     Cardinality({k \in 1..n : js[k] # PlainJet}) <= m}

\* The number of arrangements init() enumerates: L!/k!.
PermCount(f, n) ==
  LET L == IF n > NaiveJetCounting(f) THEN n ELSE NaiveJetCounting(f)
  IN Factorial(L) \div Factorial(L - n)

\* The lost lists: for each lost role its cos and its phi variable.
LostRoles == <<"q1", "qbar1", "b1", "b2", "b">>

RECURSIVE LostOf(_)
LostOf(rs) ==
  IF rs = <<>> THEN <<>>
  ELSE <<cos_(Head(rs)), phi_(Head(rs))>> \o LostOf(Tail(rs))

RoleLists(m) ==
  UNION {{rs \in [1..k -> 1..Len(LostRoles)] : \A i \in 1..(k - 1) : rs[i] < rs[i + 1]}
         : k \in 0..m}

LostLists(m) ==
  {LostOf([i \in DOMAIN rs |-> LostRoles[rs[i]]]) : rs \in RoleLists(m)}

\* The configuration the constructor copies.
Config(pruning, hp, pint, code, sup) ==
  [perm_pruning |-> pruning, highpt_first |-> hp, perm_int |-> pint,
   int_code |-> code, tf_suppress |-> sup, is_default |-> TRUE, n_max_calls |-> 0]

DefaultConfig == Config(<<>>, TRUE, FALSE, 1, 0)

Input(f, h, list, jets, leptons, mets, c) ==
  [f |-> f, h |-> h, list |-> list, jets |-> jets, nlep |-> leptons,
   nmet |-> mets, cfg |-> c]

\* Plain jets, no pruning: every final state, hypothesis and lost list.
CountingInputs ==
  UNION {{Input(f, h, list, <<>> \o [k \in 1..n |-> PlainJet], LeptonsOf(f), 1,
                DefaultConfig) :
            h \in Hypotheses, list \in LostLists(MaxLost),
            n \in {m \in 0..MaxJets : PermCount(f, m) <= MaxPerms}}
         : f \in FinalStates}

\* A wrong number of leptons.
MismatchInputs ==
  {Input(f, "TTH", <<>>, <<PlainJet>>, l, 1, DefaultConfig) :
     f \in FinalStates, l \in 0..2}

\* Four jets in the dilepton final state: observables and strategies.
PruningInputs ==
  {Input("LL", h, <<>>, <<>> \o js, 2, 1, Config(pr, hp, FALSE, 1, 0)) :
     h \in Hypotheses, js \in JetLists(4, MaxSpecial), hp \in BOOLEAN,
     pr \in {<<>>} \cup {<<s>> : s \in Strategies}}

\* Five or six jets in the single-lepton final state: at most one strategy.
SingleLeptonEvents ==
  {<<6, <<>>>>, <<5, LostOf(<<"b1">>)>>, <<5, LostOf(<<"qbar1", "b1">>)>>}

SingleLeptonInputs ==
  {Input("LH", "TTH", e[2], <<j>> \o [k \in 1..(e[1] - 1) |-> PlainJet],
         1, 1, Config(pr, TRUE, FALSE, 1, 0)) :
     e \in SingleLeptonEvents, j \in {PlainJet, LightJet, TaggedJet},
     pr \in {<<>>} \cup {<<s>> : s \in Strategies}}

\* No missing transverse energy was pushed.
NoMetInputs ==
  {Input(f, h, <<>>, <<>> \o [k \in 1..NaiveJetCounting(f) |-> PlainJet],
         LeptonsOf(f), 0, DefaultConfig) :
     f \in {"LL", "TTH"}, h \in Hypotheses}

RunInputs ==
  CountingInputs \cup MismatchInputs \cup PruningInputs \cup SingleLeptonInputs
  \cup NoMetInputs

\* An Integrand on which the event of the input was pushed, and the run()
\* about to be called.
Prepared(in) ==
  /\ Constructed
  /\ obs_jets = in.jets /\ nlep = in.nlep /\ nmet = in.nmet
  /\ cfg = in.cfg
  /\ arg = [f |-> in.f, h |-> in.h, list |-> in.list]
  /\ pc = "idle"
  /\ sol = NoSolve /\ ps = NoPS

Init == \E in \in RunInputs : Prepared(in)

\* The physical answer of the collaborators for every permutation.
NominalEnv == [k \in 0..(EnvPeriod - 1) |-> Nominal]

\* The run() of the input.
Run == pc = "idle" /\ RunInit(arg.f, arg.h, arg.list)

Next ==
  \/ Run
  \/ MakeAssumption
  \/ Eval(NominalEnv)
  \/ IntegralDone(NominalResult)
  \/ Finish

Spec == Init /\ [][Next]_vars

(***************************************************************************)
(* The evaluations of the integrand: small events, every configuration of  *)
(* the integration, every answer of the collaborators.                     *)
(***************************************************************************)
EvalConfigs(prs) ==
  {Config(pr, TRUE, pint, code, sup) :
     pr \in prs, pint \in BOOLEAN, code \in {0, 1}, sup \in {0, 1}}

EvalInputs ==
  {Input("LL", h, <<>>, js, 2, 1, c) :
     h \in Hypotheses,
     js \in {<<j, PlainJet, PlainJet, PlainJet>> : j \in {PlainJet, BorderJet}},
     c \in EvalConfigs({<<"QQbarSymmetry">>})}
  \cup
  {Input("TTH", h, <<>>, <<PlainJet, PlainJet>>, 0, 1, c) :
     h \in Hypotheses, c \in EvalConfigs({<<>>})}

InitEval == \E in \in EvalInputs : Prepared(in)

NextEval ==
  \/ Run
  \/ MakeAssumption
  \/ \E env \in Envs : Eval(env)
  \/ IntegralDone(NominalResult)
  \/ Finish

SpecEval == InitEval /\ [][NextEval]_vars

(***************************************************************************)
(* run() with an integrator that returns any of IntegralResults: events    *)
(* with few arrangements, joint and per-permutation integration, with and  *)
(* without the normalisation by the volume.                                *)
(***************************************************************************)
\* The events: two arrangements (TTH), six (LL, three jets, the first slot
\* lost), none retained (LL, four untagged jets, BTagged), too few jets.
IntegralEvents ==
  {Input("TTH", "TTH", <<>>, <<PlainJet, PlainJet>>, 0, 1, DefaultConfig),
   Input("LL", "TTH", LostOf(<<"q1">>), <<PlainJet, PlainJet, PlainJet>>, 2, 1,
         DefaultConfig),
   Input("LL", "TTBB", <<>>, <<LightJet, LightJet, LightJet, LightJet>>, 2, 1,
         Config(<<"BTagged">>, TRUE, FALSE, 1, 0)),
   Input("LL", "TTH", <<>>, <<PlainJet, PlainJet>>, 2, 1, DefaultConfig)}

IntegralInputs ==
  {[e EXCEPT !.cfg = Config(e.cfg.perm_pruning, TRUE, pint, code, 0)] :
     e \in IntegralEvents, pint \in BOOLEAN, code \in {0, 1}}

InitIntegral == \E in \in IntegralInputs : Prepared(in)

NextIntegral ==
  \/ Run
  \/ MakeAssumption
  \/ Eval(NominalEnv)
  \/ \E r \in IntegralResults : IntegralDone(r)
  \/ Finish

SpecIntegral == InitIntegral /\ [][NextIntegral]_vars

(***************************************************************************)
(* One event on which run() is called again and again, with next_hypo()    *)
(* and next_event() called by the client in between; the transfer          *)
(* functions may answer NaN.                                               *)
(***************************************************************************)
ReuseInputs ==
  {Input("LL", "TTH", <<>>, <<PlainJet, PlainJet, PlainJet, PlainJet>>, 2, 1,
         Config(<<"QQbarSymmetry">>, TRUE, pint, 1, 0)) : pint \in BOOLEAN}

InitReuse == \E in \in ReuseInputs : Prepared(in)

\* run() once more on the same event.
Rerun == pc = "returned" /\ ~ub /\ \E h \in Hypotheses : RunInit(arg.f, h, arg.list)

\* next_hypo() called by the client.  On an integrator that run() has
\* already deleted the delete is undefined: the process dies of it or goes
\* on.
NextHypo ==
  /\ Between /\ ~ub
  /\ \/ /\ next_hypo
        /\ ub' = (ig2 \notin {"null", "live"})
        /\ UNCHANGED <<obs_jets, nlep, nmet, cfg, fs, hypo, naive_jet_counting,
                       extra_jets, num_of_vars, ps_dim, n_max_calls, error_code,
                       this_perm, pc, arg, npar, integrals, prob, err2, xL, xU,
                       made, results, last, out, sol, ps>>
     \/ /\ ig2 \notin {"null", "live"}
        /\ ig2' = Deleted(ig2)
        /\ pc' = "crashed"
        /\ ub' = TRUE
        /\ UNCHANGED <<obs_jets, nlep, nmet, cfg, fs, hypo, naive_jet_counting,
                       extra_jets, num_of_vars, ps_dim, perm_indexes,
                       perm_indexes_assumption, perm_const_assumption,
                       map_to_var, map_to_part, n_calls, n_skip, n_max_calls,
                       error_code, this_perm, arg, npar, integrals, prob, err2,
                       xL, xU, made, results, last, out, sol, ps>>

NextReuse ==
  \/ Run
  \/ Rerun
  \/ MakeAssumption
  \/ \E env \in Envs : Eval(env)
  \/ IntegralDone(NominalResult)
  \/ Finish
  \/ NextHypo
  \/ ~ub /\ next_event

SpecReuse == InitReuse /\ [][NextReuse]_vars

(***************************************************************************)
(* The life of one Integrand: events are pushed object by object, the      *)
(* number of calls is overridden, run() is called any number of times.     *)
(***************************************************************************)
\* The run() calls explored.
LifeRuns ==
  {[f |-> "TTH", h |-> "TTH", list |-> <<>>],
   [f |-> "LL", h |-> "TTBB", list |-> LostOf(<<"b1", "b2">>)]}

InitLife ==
  /\ Constructed
  /\ obs_jets = <<>> /\ nlep = 0 /\ nmet = 0
  /\ cfg = DefaultConfig
  /\ arg = [f |-> "Undefined", h |-> "Undefined", list |-> <<>>]
  /\ pc = "idle"
  /\ sol = NoSolve /\ ps = NoPS

\* The number of objects of a type held.
Held(type) ==
  IF type = "Jet" THEN Len(obs_jets) ELSE IF type = "Lepton" THEN nlep ELSE nmet

\* The objects of a type an event explored holds at most: any final state
\* takes two leptons at most and one missing energy.
Cap(type) ==
  IF type = "Jet" THEN MaxObjects ELSE IF type = "Lepton" THEN 2 ELSE 1

\* What a client does after a run() that met undefined behaviour is not
\* explored.
Push ==
  /\ ~ub
  /\ \E type \in ObjectTypes : Held(type) < Cap(type) /\ push_back_object(type)

Observe == ~ub /\ \E type \in ObjectTypes : add_object_observable("BTAG", 8, type)

Override == ~ub /\ \E n \in 1..MaxOverride : set_ncalls(n)

NextEvent == ~ub /\ next_event

RunAgain == ~ub /\ \E r \in LifeRuns : RunInit(r.f, r.h, r.list)

NextLife ==
  \/ Push
  \/ Observe
  \/ Override
  \/ NextEvent
  \/ RunAgain
  \/ MakeAssumption
  \/ Eval(NominalEnv)
  \/ IntegralDone(NominalResult)
  \/ Finish

SpecLife == InitLife /\ [][NextLife]_vars

(***************************************************************************)
(* solve() on its own: one call on each of the arguments explored.         *)
(***************************************************************************)
InitSolve ==
  /\ Constructed
  /\ obs_jets = <<>> /\ nlep = 0 /\ nmet = 0
  /\ cfg = DefaultConfig
  /\ arg = [f |-> "Undefined", h |-> "Undefined", list |-> <<>>]
  /\ pc = "solve"
  /\ \E in \in SolveInputs : sol = [called |-> FALSE, in |-> in]
  /\ ps = NoPS

Solve ==
  /\ pc = "solve"
  /\ ~sol.called
  /\ LET r == solve(sol.in)
     IN sol' = [called |-> TRUE, in |-> sol.in, E |-> r.E, accept |-> r.accept]
  /\ UNCHANGED <<obs_jets, nlep, nmet, cfg, fs, hypo, naive_jet_counting,
                 extra_jets, num_of_vars, ps_dim, perm_indexes,
                 perm_indexes_assumption, perm_const_assumption, map_to_var,
                 map_to_part, n_calls, n_skip, n_max_calls, error_code, this_perm,
                 ig2, pc, arg, npar, integrals, prob, err2, xL, xU, made, results,
                 last, out, ub, ps>>

SpecSolve == InitSolve /\ [][Solve]_vars

(***************************************************************************)
(* create_PS() for the final states LH, LL and HH, one particle at a time; *)
(* arg holds the final state and the hypothesis of the run() in progress.  *)
(***************************************************************************)
InitPS ==
  /\ Constructed
  /\ obs_jets = <<>> /\ nlep = 0 /\ nmet = 0
  /\ cfg = DefaultConfig
  /\ \E f \in {"LH", "LL", "HH"}, h \in Hypotheses : arg = [f |-> f, h |-> h, list |-> <<>>]
  /\ pc = "create_PS"
  /\ sol = NoSolve
  /\ ps = [called |-> TRUE, set |-> <<>>, accept |-> 0, rejected |-> FALSE,
           last_rejected |-> FALSE, E |-> Zero, returned |-> FALSE, value |-> 0]

\* The next particle of the point: its energy is given (an integration
\* variable or a lepton) or solved for, then extend_PS() sets it.
ExtendPS ==
  /\ pc = "create_PS" /\ ~ps.returned
  /\ Len(ps.set) < Len(Roles)
  /\ LET r == Roles[Len(ps.set) + 1]
     IN IF Solved(r, arg.h)
        THEN \E in \in PSSolves :
               LET s == solved(ps.accept, in)
                   no == solve(in).accept < 0
               IN ps' = [ps EXCEPT !.set = Append(ps.set, r), !.accept = s.accept,
                                   !.E = s.E, !.rejected = ps.rejected \/ no,
                                   !.last_rejected = no]
        ELSE ps' = [ps EXCEPT !.set = Append(ps.set, r), !.E = One]
  /\ UNCHANGED <<obs_jets, nlep, nmet, cfg, fs, hypo, naive_jet_counting,
                 extra_jets, num_of_vars, ps_dim, perm_indexes,
                 perm_indexes_assumption, perm_const_assumption, map_to_var,
                 map_to_part, n_calls, n_skip, n_max_calls, error_code, this_perm,
                 ig2, pc, arg, npar, integrals, prob, err2, xL, xU, made, results,
                 last, out, ub, sol>>

\* return accept.
ReturnPS ==
  /\ pc = "create_PS" /\ ~ps.returned
  /\ Len(ps.set) = Len(Roles)
  /\ ps' = [ps EXCEPT !.returned = TRUE, !.value = ps.accept]
  /\ UNCHANGED <<obs_jets, nlep, nmet, cfg, fs, hypo, naive_jet_counting,
                 extra_jets, num_of_vars, ps_dim, perm_indexes,
                 perm_indexes_assumption, perm_const_assumption, map_to_var,
                 map_to_part, n_calls, n_skip, n_max_calls, error_code, this_perm,
                 ig2, pc, arg, npar, integrals, prob, err2, xL, xU, made, results,
                 last, out, ub, sol>>

NextPS == ExtendPS \/ ReturnPS

SpecPS == InitPS /\ [][NextPS]_vars

(***************************************************************************)
(* Properties.                                                             *)
(***************************************************************************)
\* The number of lost objects the caller's list names.
LostCount == Len(arg.list) \div 2

\* make_assumption() went through fill_map() and its loop over perm_indexes.
Assuming == pc \in {"integrate", "finish"}

Retained == {perm_indexes_assumption[k] : k \in 1..Len(perm_indexes_assumption)}

\* The role a phase-space variable belongs to.
RoleOfVar(v) == Roles[(v \div 3) + 1]

\* A lost list of cos/phi pairs of distinct roles, none of them mapped as a
\* mandatory variable.
WellFormed(list, f, h) ==
  /\ Len(list) % 2 = 0
  /\ \A i \in 1..(Len(list) \div 2) :
       /\ list[2 * i - 1] < P_t
       /\ list[2 * i - 1] % 3 = 1
       /\ list[2 * i] = list[2 * i - 1] + 1
  /\ \A i, j \in 1..Len(list) : i # j => list[i] # list[j]
  /\ \A i \in 1..Len(list) : \A k \in 1..Len(Mandatory(f, h)) :
       list[i] # Mandatory(f, h)[k]

\* C1: when make_assumption() has filled the maps for a well-formed lost
\* list, the indices held by map_to_var are exactly 0..npar-1, each of them
\* once, with npar = num_of_vars + lost.size().
C1_MapOntoRange ==
  (pc = "integrate" /\ WellFormed(arg.list, fs, hypo)) =>
    /\ {map_to_var[v] : v \in DOMAIN map_to_var} = 0..(npar - 1)
    /\ \A v, w \in DOMAIN map_to_var : v # w => map_to_var[v] # map_to_var[w]

\* C2: every permutation of perm_indexes_assumption holds exactly
\* lost.size()/2 entries -1; with the final state LH, six jets and an empty
\* lost list it holds none.
C2_SentinelCount ==
  /\ \A perm \in Retained : CountLost(perm) = LostCount
  /\ (fs = "LH" /\ Len(obs_jets) = 6 /\ arg.list = <<>>) =>
       \A perm \in Retained : \A k \in 1..Len(perm) : perm[k] >= 0

C2_Witness ==
  /\ pc = "integrate"
  /\ fs = "LH" /\ Len(obs_jets) = 5 /\ LostCount = 1
  /\ Len(perm_indexes_assumption) > 0
  /\ \E perm \in Retained : perm[3] = Lost

\* The slots written for the lost list lie inside the permutations.
LostInRange ==
  \A i \in 1..LostCount : LostParticle(arg.list[2 * i - 1]) < naive_jet_counting

\* C3 as stated: with one jet fewer than the quark slots and a lost list of
\* two objects, run() returns a record of zero permutations.
C3_OneMissingTwoLostRejected ==
  (out.returned /\ Len(obs_jets) = naive_jet_counting - 1 /\ LostCount = 2) =>
    out.num_perm = 0

\* C3 amended: with one jet fewer than the quark slots and a lost list of two
\* objects the assumption is accepted: extra_jets is 1, the integrator is
\* called, and without pruning, the two lost slots inside the permutation,
\* 2 * (slots - 1)! permutations are retained.  Zero permutations and no
\* integration are what run() returns when jets + lost objects < slots.
C3_OneMissingTwoLostAccepted ==
  out.returned =>
    /\ (Len(obs_jets) = naive_jet_counting - 1 /\ LostCount = 2) =>
         /\ extra_jets = 1
         /\ out.integrals = IF cfg.perm_int THEN out.num_perm ELSE 1
         /\ (cfg.perm_pruning = <<>> /\ LostInRange) =>
              out.num_perm = 2 * Factorial(naive_jet_counting - 1)
    /\ (Len(obs_jets) + LostCount < naive_jet_counting) =>
         out.num_perm = 0 /\ out.integrals = 0

C3_Witness ==
  /\ out.returned
  /\ Len(obs_jets) = naive_jet_counting - 1 /\ LostCount = 2
  /\ out.num_perm > 0 /\ out.integrals = 1

\* The leptons are those of the final state and the jets, with the lost
\* objects, are fewer than the quarks.
TooFewJets ==
  /\ nlep = LeptonsOf(arg.f)
  /\ Len(obs_jets) + LostCount < NaiveJetCounting(arg.f)

\* C4: with obs_jets.size() + lost.size()/2 < naive_jet_counting run() neither
\* aborts nor integrates: make_assumption() returns with no permutation
\* retained, no map filled and no evaluation made, and run() returns a record
\* with num_perm = 0 and num_calls = 0 after next_hypo().
C4_TooFewJetsSkipped ==
  TooFewJets =>
    /\ pc \notin {"aborted", "crashed", "integrate"}
    /\ pc \in {"finish", "returned"} =>
         /\ perm_indexes_assumption = <<>>
         /\ map_to_var = EmptyMap /\ map_to_part = EmptyMap
         /\ integrals = 0 /\ n_calls = 0 /\ ~last.done
    /\ pc = "returned" =>
         /\ out.returned /\ out.num_perm = 0 /\ out.num_calls = 0
         /\ ig2 = "deleted" /\ perm_indexes = <<>>

C4_Witness ==
  /\ pc = "returned" /\ TooFewJets
  /\ Len(obs_jets) > 0 /\ LostCount > 0
  /\ out.returned /\ out.num_perm = 0 /\ out.num_calls = 0

\* The slots map_to_part gives to the roles of the lost list.
LostSlots ==
  {map_to_part[RoleOfVar(arg.list[2 * i - 1])] :
     i \in {j \in 1..LostCount : RoleOfVar(arg.list[2 * j - 1]) \in DOMAIN map_to_part}}

\* C5: for the final states LH, LL and HH every retained permutation holds
\* -1 exactly at the slots that map_to_part gives to the roles of the lost
\* list.
C5_LostAtMappedSlots ==
  (Assuming /\ fs \in {"LH", "LL", "HH"}) =>
    \A perm \in Retained :
      {k \in 0..(naive_jet_counting - 1) : At(perm, k) = Lost} = LostSlots

\* The pairs of roles a symmetry strategy lets swap: the light quarks of each
\* hadronic W and, for BBbarSymmetry, b and bbar.
SwapPairs(f, s) ==
  (IF f = "LH" THEN {<<"q1", "qbar1">>}
   ELSE IF f = "HH" THEN {<<"q1", "qbar1">>, <<"q2", "qbar2">>}
   ELSE {})
  \cup (IF s = "BBbarSymmetry" /\ f \in {"LH", "LL", "HH"} THEN {<<"b", "bbar">>} ELSE {})

\* perm with the jets of the pairs of S exchanged.
RECURSIVE Exchange(_, _)
Exchange(perm, S) ==
  IF S = {} THEN perm
  ELSE LET pr == CHOOSE x \in S : TRUE
           a == map_to_part[pr[1]] + 1
           b == map_to_part[pr[2]] + 1
       IN Exchange([perm EXCEPT ![a] = perm[b], ![b] = perm[a]], S \ {pr})

SwapImages(perm, f, s) == {Exchange(perm, S) : S \in (SUBSET SwapPairs(f, s)) \ {{}}}

ActiveSymmetries ==
  {cfg.perm_pruning[k] : k \in 1..Len(cfg.perm_pruning)}
  \cap {"QQbarSymmetry", "BBbarSymmetry"}

\* C6: with QQbarSymmetry or BBbarSymmetry among the strategies, no retained
\* permutation is a later image of a retained one under the exchange of the
\* light quarks of a W (and, for BBbarSymmetry, of b and bbar).
C6_NoSwapImages ==
  Assuming =>
    \A s \in ActiveSymmetries :
      \A j \in 1..Len(perm_indexes_assumption) :
        \A i \in 1..(j - 1) :
          perm_indexes_assumption[j]
            \notin SwapImages(perm_indexes_assumption[i], fs, s)

C6_Witness ==
  /\ pc = "integrate"
  /\ fs = "LH" /\ Len(obs_jets) = 6 /\ arg.list = <<>>
  /\ cfg.perm_pruning = <<"BBbarSymmetry">>
  /\ Len(perm_indexes_assumption) > 0
  /\ Len(perm_indexes_assumption) < Len(perm_indexes)
  /\ \E k \in 1..Len(perm_indexes) :
       /\ perm_indexes[k] \notin Retained
       /\ \E perm \in Retained : perm_indexes[k] \in SwapImages(perm, fs, "BBbarSymmetry")

\* A b-quark slot of perm holds a jet whose BTAG is set and below the cut.
LowTagged(perm) ==
  \E r \in {"b1", "b2", "b", "bbar"} :
    LET ind == At(perm, map_to_part[r])
    IN /\ ind >= 0
       /\ isSet(At(obs_jets, ind), "BTAG")
       /\ getObs(At(obs_jets, ind), "BTAG") < BTagCut

\* C7: with BTagged among the strategies no retained permutation gives a
\* b-quark slot to a jet whose BTAG is set and below the cut; with BTagged
\* alone, every arrangement with the right number of lost quarks and no such
\* jet is retained, whatever its -1 entries and its jets without BTAG.
C7_BTagged ==
  (Assuming /\ fs \in {"LH", "LL", "HH"}
     /\ \E k \in 1..Len(cfg.perm_pruning) : cfg.perm_pruning[k] = "BTagged") =>
    /\ \A perm \in Retained : ~LowTagged(perm)
    /\ cfg.perm_pruning = <<"BTagged">> =>
         \A k \in 1..Len(perm_indexes) :
           LET c == ForceLost([perm |-> perm_indexes[k], ub |-> FALSE], arg.list, 0).perm
           IN (CountLost(c) = LostCount /\ ~LowTagged(c)) => c \in Retained

C7_Witness ==
  /\ pc = "integrate"
  /\ fs = "LH" /\ LostCount = 1
  /\ cfg.perm_pruning = <<"BTagged">>
  /\ \E k \in 1..Len(obs_jets) :
       isSet(obs_jets[k], "BTAG") /\ getObs(obs_jets[k], "BTAG") < BTagCut
  /\ Len(perm_indexes_assumption) > 0
  /\ \E perm \in Retained : At(perm, map_to_part["b1"]) = Lost
  /\ \E k \in 1..Len(perm_indexes) : LowTagged(perm_indexes[k])

\* The product of the widths of the energy windows over the energy roles
\* whose slot holds a real jet.
RECURSIVE WindowProduct(_, _)
WindowProduct(perm, roles) ==
  IF roles = <<>> THEN 1
  ELSE LET ind == At(perm, map_to_part[Head(roles)[1]])
           rest == WindowProduct(perm, Tail(roles))
       IN IF ind < 0 THEN rest
          ELSE IF Head(roles)[2] = "Q"
          THEN (getObs(At(obs_jets, ind), "E_HIGH_Q")
                - getObs(At(obs_jets, ind), "E_LOW_Q")) * rest
          ELSE (getObs(At(obs_jets, ind), "E_HIGH_B")
                - getObs(At(obs_jets, ind), "E_LOW_B")) * rest

\* C8: for every retained permutation get_permutation_constants() never
\* reads obs_jets at a -1 entry, and the constant stored is the product of
\* the window widths over the slots that hold a real jet.
C8_ConstantsOverRealJets ==
  (Assuming /\ fs \in {"LH", "LL", "HH"}) =>
    \A k \in 1..Len(perm_indexes_assumption) :
      /\ \A i \in 1..Len(EnergyRoles(fs, hypo)) :
           At(perm_indexes_assumption[k], map_to_part[EnergyRoles(fs, hypo)[i][1]]) >= 0
      /\ perm_const_assumption[k]
           = WindowProduct(perm_indexes_assumption[k], EnergyRoles(fs, hypo))

\* The term of permutation k at the point of the last evaluation.
Term(k) ==
  probability(OutcomeOf(last.env, k), cfg, fs).p * At(perm_const_assumption, k)

RECURSIVE SumTerms(_)
SumTerms(n) == IF n = 0 THEN 0 ELSE SumTerms(n - 1) + Term(n - 1)

\* The sum over k of what Eval() returns at the same point in
\* per-permutation mode with this_perm = k.
RECURSIVE SumPerPermutation(_)
SumPerPermutation(n) ==
  IF n = 0 THEN 0
  ELSE SumPerPermutation(n - 1)
       + EvalValue(Len(perm_indexes_assumption), perm_const_assumption, last.env,
                   [cfg EXCEPT !.perm_int = TRUE], n - 1, fs).p

\* C9: the value of an evaluation is, in joint mode, the sum over the
\* retained permutations of probability * constant and, in per-permutation
\* mode, the term of this_perm; the per-permutation values at a point add up
\* to the joint value; an evaluation adds exactly one to n_calls.
C9_EvalIsSumOfTerms ==
  (last.done /\ Assuming) =>
    /\ last.p = IF cfg.perm_int THEN Term(last.perm)
                ELSE SumTerms(Len(perm_indexes_assumption))
    /\ ~cfg.perm_int => SumPerPermutation(Len(perm_indexes_assumption)) = last.p
    /\ n_calls = last.calls + 1

C9_Witness ==
  /\ last.done /\ pc = "integrate"
  /\ ~cfg.perm_int /\ cfg.int_code # 0
  /\ Len(perm_indexes_assumption) >= 2
  /\ last.env # NominalEnv
  /\ last.p > 0
  /\ \E k \in 0..(Len(perm_indexes_assumption) - 1) : Term(k) = 0
  /\ \E k \in 0..(Len(perm_indexes_assumption) - 1) : Term(k) = last.p - Term(0)

\* C10: the value of an evaluation and the term of each retained permutation
\* are never negative.
C10_EvalNonnegative ==
  (last.done /\ Assuming) =>
    /\ last.p >= 0
    /\ \A k \in 0..(Len(perm_indexes_assumption) - 1) : Term(k) >= 0

\* The permutations whose probability() the last evaluation called.
Evaluated ==
  {k \in 0..(Len(perm_indexes_assumption) - 1) : ~cfg.perm_int \/ k = last.perm}

\* Those of them whose phase-space build was rejected.
Rejected == {k \in Evaluated : cfg.int_code # 0 /\ OutcomeOf(last.env, k).reject}

\* The sum of the permutation constants over the permutations of K.
RECURSIVE ConstSum(_)
ConstSum(K) ==
  IF K = {} THEN 0
  ELSE LET k == CHOOSE x \in K : TRUE
       IN At(perm_const_assumption, k) + ConstSum(K \ {k})

\* transfer() * matrix() at a physical point.
NominalValue == (IF fs = "TTH" THEN 1 ELSE Nominal.tf) * Nominal.me

\* C11: an evaluation adds to n_skip one per permutation whose phase-space
\* build was rejected and nothing for the others; a rejected permutation
\* contributes exactly 0 and, neither transfer() nor matrix() being called
\* for it, leaves error_code as it was.
C11_RejectedCountsOnce ==
  (last.done /\ Assuming) =>
    /\ n_skip = last.skips + Cardinality(Rejected)
    /\ (cfg.perm_int /\ Rejected # {}) => last.p = 0
    /\ (/\ cfg.int_code # 0
        /\ \A k \in Evaluated : OutcomeOf(last.env, k) = Nominal \/ k \in Rejected) =>
         /\ error_code = last.errs
         /\ last.p = NominalValue * ConstSum(Evaluated \ Rejected)

C11_Witness ==
  /\ last.done /\ pc = "integrate"
  /\ ~cfg.perm_int /\ cfg.int_code # 0
  /\ Rejected # {} /\ Rejected # Evaluated
  /\ \E k \in Rejected : OutcomeOf(last.env, k).tf_nan
  /\ n_skip = Cardinality(Rejected) /\ n_skip > 1
  /\ error_code = 0
  /\ last.p > 0

\* The last evaluation of the run() that returned called matrix() for a
\* permutation and matrix() found a NaN.
MatrixWasNaN ==
  /\ last.done /\ cfg.int_code # 0
  /\ \E k \in 0..(out.num_perm - 1) :
       /\ ~cfg.perm_int \/ k = last.perm
       /\ ~OutcomeOf(last.env, k).reject
       /\ ~(cfg.tf_suppress # 0 /\ OutcomeOf(last.env, k).oor >= cfg.tf_suppress)
       /\ OutcomeOf(last.env, k).me_nan

\* C12: a run() in which matrix() found a NaN returns a Result Record whose
\* error_code is not 0.
C12_MatrixNaNFlagged ==
  (pc = "returned" /\ out.returned /\ MatrixWasNaN) => out.error_code # 0

\* The number of leptons a final state demands.
Demanded(f) == IF f = "LH" THEN 1 ELSE IF f = "LL" THEN 2 ELSE 0

\* C13: with a number of leptons other than the final state demands, run()
\* ends at the assertion of init() with no permutation enumerated, no
\* integrator created, no evaluation made and no record returned; with the
\* number demanded the assertion does not fire.
C13_LeptonAssertion ==
  /\ nlep # Demanded(arg.f) =>
       /\ pc \in {"idle", "aborted"}
       /\ perm_indexes = <<>> /\ perm_indexes_assumption = <<>>
       /\ ig2 = "null" /\ n_max_calls = 0
       /\ ~last.done /\ n_calls = 0 /\ integrals = 0
       /\ ~out.returned
  /\ pc = "aborted" => nlep # Demanded(arg.f)

C13_Witness ==
  /\ pc = "aborted"
  /\ arg.f = "LL" /\ nlep = 1 /\ Len(obs_jets) > 0
  /\ fs = "LL" /\ perm_indexes = <<>> /\ ig2 = "null"

\* The permutation and assumption state is empty and the counters are zero.
HypothesisCleared ==
  /\ perm_indexes' = <<>>
  /\ perm_indexes_assumption' = <<>>
  /\ perm_const_assumption' = <<>>
  /\ map_to_var' = EmptyMap
  /\ map_to_part' = EmptyMap
  /\ n_calls' = 0
  /\ n_skip' = 0

\* The event holds the objects it held, with the observables they had.
SameObjects ==
  /\ Len(obs_jets') = Len(obs_jets)
  /\ nlep' = nlep
  /\ nmet' = nmet
  /\ \A k \in 1..Len(obs_jets) : \A o \in DOMAIN obs_jets[k] :
       isSet(obs_jets'[k], o) /\ getObs(obs_jets'[k], o) = getObs(obs_jets[k], o)

\* The step takes an object from the event: a call of next_event().
EventDropped == Len(obs_jets') < Len(obs_jets) \/ nlep' < nlep \/ nmet' < nmet

\* C14: the return of run() performs next_hypo(): the permutation lists, the
\* constants and both maps are emptied and n_calls and n_skip are zeroed,
\* while the observed objects stay; next_event() empties the same state and
\* the three collections of objects as well; every step of a run() keeps the
\* objects of the event; so a run() that follows another starts from an
\* empty permutation state.
C14_HypothesisReset ==
  [][/\ (pc = "finish" /\ pc' = "returned") =>
          HypothesisCleared /\ obs_jets' = obs_jets /\ nlep' = nlep /\ nmet' = nmet
     /\ EventDropped =>
          /\ Between
          /\ HypothesisCleared
          /\ obs_jets' = <<>> /\ nlep' = 0 /\ nmet' = 0
     /\ ~Between => SameObjects
     /\ (pc = "returned" /\ pc' = "assume") =>
          /\ SameObjects
          /\ perm_indexes_assumption = <<>> /\ perm_const_assumption = <<>>
          /\ map_to_var = EmptyMap /\ map_to_part = EmptyMap
          /\ n_calls = 0 /\ n_skip = 0
          /\ Len(perm_indexes') = PermCount(fs', Len(obs_jets))]_vars

\* A second run() on the event, after a run() that retained permutations,
\* has enumerated and retained its own permutations only.
C14_Witness ==
  /\ pc = "finish"
  /\ out.returned /\ out.num_perm > 0 /\ out.num_calls > 0
  /\ ig2 = "live"
  /\ Len(obs_jets) = 2 /\ isSet(obs_jets[2], "BTAG")
  /\ n_calls > 0
  /\ Len(perm_indexes) = PermCount(fs, Len(obs_jets))
  /\ Len(perm_indexes_assumption) > 0
  /\ Len(perm_indexes_assumption) = Len(perm_const_assumption)

Sentinels ==
  IF NaiveJetCounting(fs) > Len(obs_jets)
  THEN NaiveJetCounting(fs) - Len(obs_jets) ELSE 0

\* The positions of a permutation that hold the value v.
Holding(p, v) == {i \in 1..Len(p) : p[i] = v}

\* init() has run and next_hypo() has not.
Enumerated == pc \in {"assume", "integrate", "finish"}

\* C16: init() adds to perm_indexes every arrangement of the jet indices
\* 0..n-1 and the k sentinels once: the entries are L!/k! in number with
\* L = n + k, no two of them are equal, and each holds every jet index once
\* and the sentinel k times.
C16_ArrangementsOnce ==
  Enumerated =>
    LET n == Len(obs_jets)
        k == Sentinels
        L == n + k
    IN /\ Len(perm_indexes) * Factorial(k) = Factorial(L)
       /\ Cardinality({perm_indexes[i] : i \in 1..Len(perm_indexes)})
            = Len(perm_indexes)
       /\ \A i \in 1..Len(perm_indexes) :
            /\ Len(perm_indexes[i]) = L
            /\ Cardinality(Holding(perm_indexes[i], Lost)) = k
            /\ \A j \in 0..(n - 1) :
                 Cardinality(Holding(perm_indexes[i], j)) = 1

\* Three jets of six in the single-lepton final state, enumerated from the
\* sentinels up: 120 arrangements with three sentinels each.
C16_Witness ==
  /\ Enumerated
  /\ fs = "LH" /\ Len(obs_jets) = 3 /\ Sentinels = 3
  /\ cfg.highpt_first
  /\ Len(perm_indexes) = 120
  /\ perm_indexes[1] # perm_indexes[120]

\* solve() was called for a massive daughter: its adimensional a and b.
SolvedMassive == sol.called /\ ~IsMassless(sol.in.M)
SolA == MassiveA(sol.in)
SolB == MassiveB(sol.in)

\* The call returned an energy and left the flag as it was.
SolAccepted == sol.E # numeric_max /\ sol.accept = sol.in.accept

\* The call set the flag and returned the largest double.
SolRejected == sol.E = numeric_max /\ sol.accept = -1

\* The root that goes with the root g: both add up to 2a/(1 - b2).
OtherRoot(g) ==
  Minus(Over(Times(Two, SolA), Minus(One, Times(SolB, SolB))), g)

\* b > 0, a negative discriminant and two roots that are at least 1.
TwoRootsCase ==
  /\ SolvedMassive
  /\ Less(Zero, SolB)
  /\ ~Less(Radicand(SolA, SolB), Zero)
  /\ Less(discr(SolA, SolB), Zero)
  /\ ~Less(g_p(SolA, SolB), One) /\ ~Less(g_m(SolA, SolB), One)

\* C17: with b > 0, a negative discriminant and both roots at least 1, the
\* energy returned is the one of g+ * M and g- * M next to the target: no
\* root gives an energy nearer to the target than the energy returned.
C17_ClosestEnergy ==
  TwoRootsCase =>
    /\ SolAccepted
    /\ ~Less(Fabs(Minus(sol.in.target, Times(OtherRoot(Over(sol.E, sol.in.M)),
                                             sol.in.M))),
             Fabs(Minus(sol.in.target, sol.E)))

\* C18: a call for a massive daughter with |b| < 1 that does not reject
\* returns an energy of at least M, the energy of one of the two roots; the
\* call rejects when a2 + b2 - 1 < 0 and when the larger root is below 1.
C18_NoRootBelowOne ==
  (SolvedMassive /\ Less(Fabs(SolB), One)) =>
    /\ SolAccepted \/ SolRejected
    /\ SolAccepted =>
         /\ ~Less(Over(sol.E, sol.in.M), One)
         /\ ~Less(Radicand(SolA, SolB), Zero)
         /\ Over(sol.E, sol.in.M) \in {g_p(SolA, SolB), g_m(SolA, SolB)}
    /\ Less(Radicand(SolA, SolB), Zero) => SolRejected
    /\ (~Less(Radicand(SolA, SolB), Zero) /\ Less(g_p(SolA, SolB), One)) =>
         SolRejected

\* A smaller root above 1 was returned by a call that found the flag set.
C18_Witness ==
  /\ SolvedMassive /\ Less(Fabs(SolB), One)
  /\ ~Less(Radicand(SolA, SolB), Zero)
  /\ SolAccepted
  /\ Over(sol.E, sol.in.M) = g_m(SolA, SolB)
  /\ g_m(SolA, SolB) # g_p(SolA, SolB)
  /\ Less(One, Over(sol.E, sol.in.M))
  /\ sol.in.accept = -1

\* C19: for a massless daughter, with a = DM2 / P.E and b the cosine: when
\* b >= 1 the flag is set to -1 and the largest double is returned; when
\* b < 1 the energy returned is a / (1 - b) and the flag is as it was.
C19_MasslessFormula ==
  (sol.called /\ IsMassless(sol.in.M)) =>
    LET a == Over(sol.in.DM2, sol.in.E)
        b == sol.in.cos
    IN IF ~Less(b, One)
       THEN sol.accept = -1 /\ sol.E = numeric_max
       ELSE /\ Times(sol.E, Minus(One, b)) = a
            /\ sol.accept = sol.in.accept

C19_Witness ==
  /\ sol.called /\ IsMassless(sol.in.M)
  /\ Less(sol.in.cos, Zero)
  /\ sol.in.DM2 = Norm(MaxDM2, 1)
  /\ sol.in.accept = 0 /\ sol.accept = 0
  /\ Less(Zero, sol.E) /\ Less(sol.E, Over(sol.in.DM2, sol.in.E))

\* The daughter is massive and the call passed both tests of the roots.
RootsExist ==
  /\ SolvedMassive
  /\ ~Less(Radicand(SolA, SolB), Zero)
  /\ ~Less(g_p(SolA, SolB), One)

\* C20: for a massive daughter past the tests of the roots: with b > 0 and a
\* discriminant that is not negative the energy of the larger root is
\* returned; with b <= 0 the energy of the smaller root is returned when the
\* discriminant is positive, and the call rejects when it is not.
C20_RootSelection ==
  RootsExist =>
    /\ (Less(Zero, SolB) /\ ~Less(discr(SolA, SolB), Zero)) =>
         /\ SolAccepted
         /\ sol.E = Times(g_p(SolA, SolB), sol.in.M)
    /\ (~Less(Zero, SolB) /\ Less(Zero, discr(SolA, SolB))) =>
         /\ SolAccepted
         /\ sol.E = Times(OtherRoot(g_p(SolA, SolB)), sol.in.M)
         /\ ~Less(g_p(SolA, SolB), Over(sol.E, sol.in.M))
    /\ (~Less(Zero, SolB) /\ ~Less(Zero, discr(SolA, SolB))) => SolRejected

\* b < 0, a positive discriminant, two roots: the smaller one was returned.
C20_Witness ==
  /\ RootsExist
  /\ Less(SolB, Zero) /\ Less(Zero, discr(SolA, SolB))
  /\ SolAccepted
  /\ Less(Over(sol.E, sol.in.M), g_p(SolA, SolB))
  /\ sol.E = Times(OtherRoot(g_p(SolA, SolB)), sol.in.M)

\* C25: with a threshold T = cfg.tf_suppress > 0, probability() is 0 when
\* more than T transfer functions are out of range and is the product of
\* the transfer functions and the matrix element when at most T are; with
\* T = 0 it is always the product.
C25_SuppressAboveThreshold ==
  (last.done /\ Assuming /\ cfg.perm_int /\ cfg.int_code # 0 /\ fs # "TTH") =>
    LET o == OutcomeOf(last.env, last.perm)
    IN (~o.reject /\ ~o.tf_nan /\ ~o.me_nan) =>
         last.p = IF cfg.tf_suppress > 0 /\ o.oor > cfg.tf_suppress
                  THEN 0
                  ELSE o.tf * o.me * At(perm_const_assumption, last.perm)

\* The roles accept_perm() and get_permutation_constants() look up in
\* map_to_part during the run.
KeysWanted ==
  UNION {LookedUp(fs, cfg.perm_pruning[k]) : k \in 1..Len(cfg.perm_pruning)}
  \cup {EnergyRoles(fs, hypo)[k][1] : k \in 1..Len(EnergyRoles(fs, hypo))}

\* C26: for the final states LH, HH and LL and every lost role of the lost
\* list, the slot (PSVar - 1) / 3 that make_assumption() writes with -1 lies
\* inside every permutation vector, and the roles accept_perm() and
\* get_permutation_constants() look up are keys of map_to_part.
C26_LostSlotsInside ==
  (pc \in {"integrate", "finish", "crashed"} /\ fs \in {"LH", "LL", "HH"} /\ ~TooFewJets) =>
    /\ \A i \in 1..LostCount : \A k \in 1..Len(perm_indexes) :
         LostParticle(arg.list[2 * i - 1]) < Len(perm_indexes[k])
    /\ pc # "crashed" => KeysWanted \subseteq DOMAIN map_to_part

\* The candidates of make_assumption(): the permutations of perm_indexes
\* with the lost slots forced, that hold as many -1 as the lost list wants.
Candidates ==
  {c \in {ForceLost([perm |-> perm_indexes[k], ub |-> FALSE], arg.list, 0).perm :
            k \in 1..Len(perm_indexes)} : CountMatches(c, arg.list)}

\* The quark-role slots of the topology.
RoleSlots(perm) == SubSeq(perm, 1, naive_jet_counting)

\* C27: with QQbarSymmetry as the only strategy a candidate is discarded
\* only if a retained permutation agrees with it on every quark-role slot
\* but those of the light-quark pairs, which are equal or swapped; a
\* candidate whose b or bbar slot differs from every such retained
\* permutation is retained.
C27_DiscardedOnlyForLightSwap ==
  (Assuming /\ ~ub /\ fs \in {"LH", "LL", "HH"} /\ cfg.perm_pruning = <<"QQbarSymmetry">>) =>
    \A c \in Candidates :
      \/ c \in Retained
      \/ \E r \in Retained :
           RoleSlots(c) \in {RoleSlots(x) : x \in SwapImages(r, fs, "QQbarSymmetry") \cup {r}}

\* C28: no two permutations retained for an assumption hold the same jet
\* or sentinel at every quark-role slot of the topology, whatever the
\* pruning strategies.
C28_RetainedDistinct ==
  (Assuming /\ ~ub /\ fs \in {"LH", "LL", "HH"}) =>
    \A j \in 1..Len(perm_indexes_assumption) :
      \A i \in 1..(j - 1) :
        RoleSlots(perm_indexes_assumption[i]) # RoleSlots(perm_indexes_assumption[j])

\* The product of the differences xU[i] - xL[i], i < nvar.
RECURSIVE get_width_signed(_, _, _)
get_width_signed(lo, up, nvar) ==
  IF nvar <= 0 THEN One
  ELSE Times(get_width_signed(lo, up, nvar - 1), Minus(up[nvar], lo[nvar]))

\* The run has gone through get_edges() and get_width(), with a lost list
\* that names none of the mandatory variables of the final state.
Ranged ==
  /\ Assuming /\ ~TooFewJets /\ ~ub
  /\ \A k \in 1..Len(arg.list) :
       \A m \in 1..Len(Mandatory(fs, hypo)) : arg.list[k] # Mandatory(fs, hypo)[m]

\* C21: the volume make_assumption() computes is the product of the
\* differences xU[i] - xL[i] over the npar variables, with xL[i] <= xU[i]
\* for each of them; the variables of a lost object are bounded by [-1, +1]
\* and [-Pi, +Pi] in this order, the energy fractions by [0, 1].
C21_VolumeIsProduct ==
  Ranged =>
    /\ Len(xL) = npar /\ Len(xU) = npar
    /\ \A i \in 1..npar : ~Less(xU[i], xL[i])
    /\ volume = get_width_signed(xL, xU, npar)
    /\ \A v \in DOMAIN map_to_var :
         /\ (v < P_t /\ v % 3 = 0) => xL[map_to_var[v] + 1] = Zero /\ xU[map_to_var[v] + 1] = One
         /\ (\E k \in 1..Len(arg.list) : arg.list[k] = v /\ k % 2 = 1) =>
              xL[map_to_var[v] + 1] = Neg(One) /\ xU[map_to_var[v] + 1] = One
         /\ (\E k \in 1..Len(arg.list) : arg.list[k] = v /\ k % 2 = 0) =>
              xL[map_to_var[v] + 1] = Neg(Pi) /\ xU[map_to_var[v] + 1] = Pi

\* The sum of the integrals returned and the sum of the squares of the
\* errors returned, over the first k calls of Integral().
RECURSIVE SumOfIntegrals(_)
SumOfIntegrals(k) ==
  IF k = 0 THEN Zero ELSE Plus(SumOfIntegrals(k - 1), results[k].v)

RECURSIVE SumOfSquaredErrors(_)
SumOfSquaredErrors(k) ==
  IF k = 0 THEN Zero
  ELSE Plus(SumOfSquaredErrors(k - 1), Times(results[k].e, results[k].e))

\* C22: a run() whose assumption is not skipped calls Integral() once in
\* joint mode and once for each retained permutation, in list order, with
\* this_perm the index of the permutation and each time on an integrator
\* that has not integrated before, in per-permutation mode; the probability
\* reported is the sum of the integrals (divided by the volume when the
\* integration code is 0, claim C23) and the error reported is the square
\* root of the sum of the squared errors.
C22_OneIntegralPerPermutation ==
  (pc = "returned" /\ out.assumed) =>
    /\ Len(results) = IF cfg.perm_int THEN out.num_perm ELSE 1
    /\ cfg.perm_int =>
         \A k \in 1..Len(results) :
           /\ results[k].perm = k - 1
           /\ \A j \in 1..(k - 1) : results[j].instance # results[k].instance
    /\ \A k \in 1..Len(results) : results[k].instance \in 1..made
    /\ out.p = Normalised(SumOfIntegrals(Len(results)), volume, cfg.int_code)
    /\ out.p_err = Root(SumOfSquaredErrors(Len(results)))

C22_Witness ==
  /\ pc = "returned" /\ out.assumed /\ cfg.perm_int /\ cfg.int_code # 0
  /\ Len(results) = 6
  /\ results[1].v # results[2].v /\ results[5].e = Two
  /\ out.p = SumOfIntegrals(6)

C22_WitnessJoint ==
  /\ pc = "returned" /\ out.assumed /\ ~cfg.perm_int /\ out.num_perm = 6
  /\ Len(results) = 1 /\ results[1].e = Two /\ out.p_err = Root(Norm(4, 1))

C22_WitnessNone ==
  /\ pc = "returned" /\ out.assumed /\ cfg.perm_int /\ out.num_perm = 0
  /\ results = <<>> /\ out.p = Zero /\ out.p_err = Root(Zero)

\* C23: the probability of the Result Record is the sum of the integrals
\* divided by the volume when cfg.int_code is 0 and the sum itself for every
\* other cfg.int_code.
C23_NormalisedByVolume ==
  (pc = "returned" /\ out.assumed) =>
    out.p = IF cfg.int_code = 0 THEN Over(prob, volume) ELSE prob

C23_Witness ==
  /\ pc = "returned" /\ out.assumed /\ cfg.int_code = 0
  /\ prob # Zero /\ volume # One /\ out.p # prob /\ Times(out.p, volume) = prob

C23_WitnessUndivided ==
  /\ pc = "returned" /\ out.assumed /\ cfg.int_code # 0
  /\ prob # Zero /\ volume # One /\ out.p = prob

\* C29: the error_code of a Result Record is nonzero only if a NaN was
\* clamped during the run() that returns it: a run() that has not evaluated
\* the integrand yet holds, and returns, error_code 0, whatever earlier
\* run() calls on the event met.
C29_ErrorCodeOfThisRun ==
  /\ (pc \in {"assume", "integrate", "finish"} /\ ~last.done) => error_code = 0
  /\ (pc = "returned" /\ ~last.done) => out.error_code = 0

\* C30: over the sequences of run(), next_hypo() and next_event(), no
\* integrator is deleted twice, an integrator is live whenever run() uses
\* it, and none is left live when run() has returned.
C30_IntegratorDeletedOnce ==
  /\ ig2 # "deleted_twice"
  /\ pc \in {"assume", "integrate", "finish"} => ig2 = "live"
  /\ Between => ig2 \in {"null", "deleted"}

\* The reject flag is -1 exactly if a solve() of this call has rejected, the
\* particles set so far are the first ones of the order q1, qbar1, b1, q2,
\* qbar2, b2, b, bbar, and the call returns with all eight set and a value
\* that is negative exactly if a solve() rejected.
FlagAndOrder ==
  pc = "create_PS" =>
    /\ ps.accept = IF ps.rejected THEN -1 ELSE 0
    /\ ps.set = SubSeq(Roles, 1, Len(ps.set))
    /\ ps.returned => (ps.set = Roles /\ (ps.value < 0 <=> ps.rejected))

\* C24: in create_PS_LH, create_PS_LL and create_PS_HH the reject flag
\* starts at 0, is -1 once a solve() has rejected and is never reset by a
\* later step; the value returned is negative if and only if a solve()
\* rejected; the eight particles are set in the order q1, qbar1, b1, q2,
\* qbar2, b2, b, bbar, whether or not a solve() rejected.
C24_RejectFlagMonotone ==
  /\ []FlagAndOrder
  /\ [][(pc = "create_PS" /\ ps.accept < 0) => ps'.accept < 0]_vars

C24_Witness ==
  /\ pc = "create_PS" /\ ps.returned /\ ps.rejected /\ ~ps.last_rejected
  /\ ps.value = -1 /\ ps.set = Roles /\ arg.f = "LL" /\ arg.h = "TTH"

C24_WitnessAccepted ==
  /\ pc = "create_PS" /\ ps.returned /\ ~ps.rejected /\ ps.value = 0
  /\ ps.set = Roles /\ arg.h = "TTBB"
====
